---- MODULE Spec2Model ----
(***************************************************************************)
(* A model of the contact-matrix engine of rs-hicproj (crate hic-matrix):  *)
(* the bin/pixel builders, the bin1_offset index, the range-query engine   *)
(* (Selector2D) and the zoom ordering.                                     *)
(*                                                                         *)
(* Rust arrays are 0-based; an Array1/Vec of length n is modelled either   *)
(* as a function over 0..n-1 (index arrays: offsets, weights, bin table)   *)
(* or as a TLA+ sequence whose element k+1 is the Rust element k (pixel    *)
(* arrays and result vectors).  A pixel (PixelT) is the triple             *)
(* <<bin1, bin2, count>>.  Weights (f64) are restricted to small positive  *)
(* integers, on which the f64 products taken by the code are exact.        *)
(***************************************************************************)
EXTENDS Integers, Sequences, FiniteSets, Bags, TLC

VARIABLES
    store,      \* Selector2D: the persisted resolution group it reads
    query,      \* Selector2D: the last request (kind and window)
    result,     \* Selector2D: the (is, js, vs) vectors returned for it
    offs,       \* build_bin_offsets_from_pixels: its input and output
    table,      \* ResGrpBuilder: contig lengths, resolution, offsets, bin table
    pairs,      \* PairsBuilder and its get_pixels: the records read, the aggregation
    grp,        \* the resolution group written from the builder (zoom's source)
    zoom,       \* ZoomBuilder, its RawPixelIterator and its get_pixels
    order,      \* get_zooming_order: its input and output
    mat,        \* Matrix and the functions of matrix_builder.rs called on it
    bal,        \* Balancer: one run of balance_by_ic_genomewide
    rgq,        \* ResGroup: its selector and the last query made on it
    iter        \* RawPixelIterator: its range, position and the chunks yielded

selVars == <<store, query, result>>
buildVars == <<pairs, grp, zoom>>
apiVars == <<mat, bal, rgq, iter>>
vars == <<store, query, result, offs, table, pairs, grp, zoom, order, mat, bal, rgq, iter>>

(***************************************************************************)
(* Bounds of the model.                                                    *)
(***************************************************************************)
MaxBins == 3        \* a stored resolution has at most this many bins
MaxPixels == 6      \* ... and at most this many stored pixels
MaxTigs == 2        \* contigs of a catalog given to the bin-table builders
MaxLen == 4         \* longest contig of such a catalog
MaxRes == 3         \* largest resolution (bin width) of a builder
MaxObs == 2         \* records of a pairs file
MaxPos == 2         \* largest position of a record
MaxChunk == 2       \* largest chunk size of a RawPixelIterator
MaxResolution == 6  \* largest resolution given to get_zooming_order
MaxNew == 2         \* longest list of new resolutions given to it
BalBins == 11       \* bins of the largest resolution group a balancer is run on

NoQuery == [kind |-> "none", i0 |-> 0, i1 |-> 0, j0 |-> 0, j1 |-> 0]
NoResult == [is |-> <<>>, js |-> <<>>, vs |-> <<>>]

(***************************************************************************)
(* Sorting a hash aggregation: `pixels.into_iter().map(..).collect()`      *)
(* followed by `pixels.sort_by_key(|rec| (rec.0, rec.1))`.  The map is a   *)
(* function from (bin1, bin2) keys to counts; its iteration order is       *)
(* arbitrary and the sort fixes it, the keys being unique.                 *)
(***************************************************************************)
KeyLess(a, b) == a[1] < b[1] \/ (a[1] = b[1] /\ a[2] < b[2])

RECURSIVE SortKeys(_)
SortKeys(S) ==
    IF S = {} THEN <<>>
    ELSE LET m == CHOOSE x \in S : \A y \in S \ {x} : KeyLess(x, y)
         IN  <<m>> \o SortKeys(S \ {m})

sort_by_key_reversed(map) ==
    LET ks == SortKeys(DOMAIN map)
        n == Len(ks)
    IN  [k \in 1..n |-> <<ks[n + 1 - k][1], ks[n + 1 - k][2], map[ks[n + 1 - k]]>>]

sort_by_key(map) ==
    LET ks == SortKeys(DOMAIN map)
    IN  [k \in 1..Len(ks) |-> <<ks[k][1], ks[k][2], map[ks[k]]>>]

(***************************************************************************)
(* ResGrpBuilder::build_bin_offsets_from_pixels (res_grp_builder.rs 54-78) *)
(***************************************************************************)
\* lines 68-70: every change of bin1 between neighbours records the index
offsets_mark(init, pixels) ==
    LET F[k \in 1..Len(pixels)] ==
            IF k = 1 THEN init
            ELSE IF pixels[k-1][1] # pixels[k][1]
                 THEN [F[k-1] EXCEPT ![pixels[k][1]] = k - 1]
                 ELSE F[k-1]
    IN  F[Len(pixels)]

\* lines 73-75: the reverse sweep that fills the bins owning no pixel
offsets_fill_from(start_ind, marked, tb) ==
    LET G[i \in (start_ind + 1)..tb] ==
            IF i = tb THEN marked
            ELSE LET nxt == G[i + 1]
                 IN  IF nxt[i] = 0 THEN [nxt EXCEPT ![i] = nxt[i + 1]] ELSE nxt
    IN  G[start_ind + 1]

offsets_fill_all(start_ind, marked, tb) == offsets_fill_from(0, marked, tb)

offsets_fill(start_ind, marked, tb) == offsets_fill_from(start_ind, marked, tb)

build_bin_offsets_from_pixels(total_bins, pixels) ==
    LET tb == total_bins + 1
        zero == [i \in 0..(tb - 1) |-> 0]
    IN  IF Len(pixels) = 0 THEN zero
        ELSE LET start_ind == pixels[1][1]
                 marked == [offsets_mark(zero, pixels) EXCEPT ![tb - 1] = Len(pixels)]
             IN  offsets_fill(start_ind, marked, tb)

(***************************************************************************)
(* Selector2D (selector.rs).  A result is the record of the three vectors  *)
(* (is, js, vs) the code returns.                                          *)
(***************************************************************************)
\* utils::get_vec_wrt_predicate / get_array_wrt_predicate (utils.rs 40-53)
get_vec_wrt_predicate(predicate, array) ==
    LET F[k \in 0..Len(array)] ==
            IF k = 0 THEN <<>>
            ELSE IF predicate[k] THEN Append(F[k-1], array[k]) ELSE F[k-1]
    IN  F[Len(array)]

\* the one element of a singleton: `the({f(x) : x \in {e}})` is f(e) with
\* e evaluated once, as a Rust `let x = e;` does
the(S) == CHOOSE x \in S : TRUE

\* `iter::repeat(x).take(n)`
repeat_take(x, n) == [k \in 1..n |-> x]

\* the column mask of one row (selector.rs 147)
col_mask_open(cur_bins, j0, j1) == [k \in 1..Len(cur_bins) |-> cur_bins[k] > j0 /\ cur_bins[k] < j1]

col_mask(cur_bins, j0, j1) == [k \in 1..Len(cur_bins) |-> cur_bins[k] >= j0 /\ cur_bins[k] < j1]

\* Selector2D::get_triu_nnz_bins (selector.rs 126-157): the stored pixels
\* with bin1 in [i0,i1) and bin2 in [j0,j1), row by row through bin_offsets
get_triu_nnz_bins(st, i0, i1, j0, j1) ==
    IF i0 >= i1 \/ j0 >= j1 THEN [is |-> <<>>, js |-> <<>>, vs |-> <<>>]
    ELSE
      LET p0 == st.bin_offsets[i0]
          p1 == st.bin_offsets[i1]
          bin2ids == SubSeq(st.bin2_id, p0 + 1, p1)    \* read_pixel_chunk(p0, p1)
          counts == SubSeq(st.count, p0 + 1, p1)
          Rows[r \in i0..i1] ==
              IF r = i0 THEN [is |-> <<>>, js |-> <<>>, vs |-> <<>>]
              ELSE LET row_id == r - 1
                       lo == st.bin_offsets[row_id] - p0
                       hi == st.bin_offsets[row_id + 1] - p0
                       cur_bins == SubSeq(bin2ids, lo + 1, hi)
                       cur_counts == SubSeq(counts, lo + 1, hi)
                       mask == col_mask(cur_bins, j0, j1)
                       cols == get_vec_wrt_predicate(mask, cur_bins)
                       acc == Rows[r - 1]
                   IN  [is |-> acc.is \o repeat_take(row_id, Len(cols)),
                        js |-> acc.js \o cols,
                        vs |-> acc.vs \o get_vec_wrt_predicate(mask, cur_counts)]
      IN  Rows[i1]

is_overlap(i0, i1, j0, j1) == (i0 <= j1) /\ (j0 <= i1)

is_nested_strict(i0, i1, j0, j1) == (i0 < j0 /\ j1 < i1) \/ (j0 < i0 /\ i1 < j1)

is_nested(i0, i1, j0, j1) == (i0 <= j0 /\ j1 <= i1) \/ (j0 <= i0 /\ i1 <= j1)

is_coming_before(i0, i1, j0, j1) == (i0 < j0) /\ (i1 <= j1)

\* "glue without duplication": a triangular block followed by its mirrored
\* off-diagonal entries (selector.rs 46-54, 82-89, 100-107).  `t` is the
\* fetched block, its first vector named `a` and its second `b` here.
mirror_all(a, b, v) ==
    [a |-> a \o b, b |-> b \o a, v |-> v \o v]

mirror_nodiag(a, b, v) ==
    LET nodiags == [k \in 1..Len(a) |-> a[k] # b[k]]
        a_nd == get_vec_wrt_predicate(nodiags, a)
        b_nd == get_vec_wrt_predicate(nodiags, b)
        v_nd == get_vec_wrt_predicate(nodiags, v)
    IN  [a |-> a \o b_nd, b |-> b \o a_nd, v |-> v \o v_nd]

\* selector.rs 43-54: the symmetric query
symmetric_query(st, i0, i1) ==
    LET t == get_triu_nnz_bins(st, i0, i1, i0, i1)
        m == mirror_nodiag(t.is, t.js, t.vs)
    IN  [is |-> m.a, js |-> m.b, vs |-> m.v]

\* selector.rs 74-93: the column range lies inside the row range
nested_query_unswapped(st, i0, i1, j0, j1) ==
    LET x == get_triu_nnz_bins(st, i0, j0, j0, j1)
        y == get_triu_nnz_bins(st, j0, j1, j0, j1)
        z == get_triu_nnz_bins(st, j0, j1, j1, i1)
        m == mirror_nodiag(y.js, y.is, y.vs)
    IN  [is |-> x.is \o m.a \o z.is,
         js |-> x.js \o m.b \o z.js,
         vs |-> x.vs \o m.v \o z.vs]

nested_query(st, i0, i1, j0, j1) ==
    LET x == get_triu_nnz_bins(st, i0, j0, j0, j1)
        y == get_triu_nnz_bins(st, j0, j1, j0, j1)    \* (jy, iy, vy)
        z == get_triu_nnz_bins(st, j0, j1, j1, i1)    \* (jz, iz, vz)
        m == mirror_nodiag(y.js, y.is, y.vs)          \* a = iy, b = jy
    IN  [is |-> x.is \o m.a \o z.js,
         js |-> x.js \o m.b \o z.is,
         vs |-> x.vs \o m.v \o z.vs]

\* selector.rs 94-111: the row range starts first and the two overlap
coming_before_query(st, i0, i1, j0, j1) ==
    LET x == get_triu_nnz_bins(st, i0, j0, j0, i1)
        y == get_triu_nnz_bins(st, j0, i1, j0, i1)
        z == get_triu_nnz_bins(st, i0, i1, i1, j1)
        m == mirror_nodiag(y.is, y.js, y.vs)
    IN  [is |-> x.is \o m.a \o z.is,
         js |-> x.js \o m.b \o z.js,
         vs |-> x.vs \o m.v \o z.vs]

\* selector.rs 67, 74, 94, 112: the branch taken for a normalised window
classify(i0, i1, j0, j1) ==
    IF ~is_overlap(i0, i1, j0, j1) THEN "non_overlapping"
    ELSE IF is_nested(i0, i1, j0, j1) THEN "nested"
    ELSE IF is_coming_before(i0, i1, j0, j1) THEN "coming_before"
    ELSE "panic"

\* what stands for the `It should not happen` panic of selector.rs 113
Panicked == [is |-> <<-1>>, js |-> <<>>, vs |-> <<>>]

\* selector.rs 56-115: the asymmetric query after normalisation
asymmetric_query(st, i0, i1, j0, j1) ==
    CASE classify(i0, i1, j0, j1) = "non_overlapping" -> get_triu_nnz_bins(st, i0, i1, j0, j1)
      [] classify(i0, i1, j0, j1) = "nested" -> nested_query(st, i0, i1, j0, j1)
      [] classify(i0, i1, j0, j1) = "coming_before" -> coming_before_query(st, i0, i1, j0, j1)
      [] OTHER -> Panicked

\* Selector2D::get_rectangle (selector.rs 37-124)
get_rectangle(st, i0, i1, j0, j1) ==
    IF <<i0, i1>> = <<j0, j1>> THEN symmetric_query(st, i0, i1)
    ELSE IF j0 < i0 \/ (i0 = j0 /\ i1 < j1)
         THEN LET r == asymmetric_query(st, j0, j1, i0, i1)    \* mem::swap, transpose
              IN  [is |-> r.js, js |-> r.is, vs |-> r.vs]
         ELSE asymmetric_query(st, i0, i1, j0, j1)

\* Selector2D::get_raw_submatrix (selector.rs 32-35)
get_raw_submatrix(st, i0, i1, j0, j1) == get_rectangle(st, i0, i1, j0, j1)

\* the f64 product of selector.rs 27
scale_by_row_only(biases, b1, b2, v) == v * biases[b1] * biases[b1]

scale(biases, b1, b2, v) == v * biases[b1] * biases[b2]

\* Selector2D::get_balanced_submatrix (selector.rs 23-30)
get_balanced_submatrix(st, i0, i1, j0, j1) ==
    the({[is |-> r.is, js |-> r.js,
          vs |-> [k \in 1..Len(r.vs) |-> scale(st.biases, r.is[k], r.js[k], r.vs[k])]] :
            r \in {get_rectangle(st, i0, i1, j0, j1)}})

(***************************************************************************)
(* ResGrpBuilder: the per-contig bin offsets and the bin table             *)
(* (res_grp_builder.rs 19-52).  tig_lengths is a function over the contig  *)
(* ids 0..n-1.  `((len as f64) / (rsltn as f64)).ceil()` is the integer    *)
(* ceiling of the quotient for every length an f64 holds exactly.          *)
(***************************************************************************)
ZeroBased(seq) == [i \in 0..(Len(seq) - 1) |-> seq[i + 1]]

n_tigs(tig_lengths) == Cardinality(DOMAIN tig_lengths)

floor_div(len, rsltn) == len \div rsltn

ceil_div(len, rsltn) == (len + rsltn - 1) \div rsltn

build_tig_offsets(rsltn, tig_lengths) ==
    LET Count[i \in 0..n_tigs(tig_lengths)] ==
            IF i = 0 THEN 0 ELSE Count[i - 1] + ceil_div(tig_lengths[i - 1], rsltn)
    IN  [i \in 0..n_tigs(tig_lengths) |-> Count[i]]

\* res_grp_builder.rs 41-43: the bin boundaries of one contig
bin_edge_untruncated(x, n_bins, rsltn, length) == x * rsltn

bin_edge(x, n_bins, rsltn, length) == IF x # n_bins THEN x * rsltn ELSE length

\* res_grp_builder.rs 38-48: the rows (chr, start, end) of one contig
tig_bins(i, rsltn, length) ==
    LET n_bins == ceil_div(length, rsltn)
    IN  [k \in 1..n_bins |->
            <<i, bin_edge(k - 1, n_bins, rsltn, length), bin_edge(k, n_bins, rsltn, length)>>]

build_bin_table_from_lengths(n_bins, rsltn, tig_lengths) ==
    LET Rows[i \in 0..n_tigs(tig_lengths)] ==
            IF i = 0 THEN <<>> ELSE Rows[i - 1] \o tig_bins(i - 1, rsltn, tig_lengths[i - 1])
        rows == Rows[n_tigs(tig_lengths)]
    IN  [chrs |-> [b \in 0..(n_bins - 1) |-> rows[b + 1][1]],
         starts |-> [b \in 0..(n_bins - 1) |-> rows[b + 1][2]],
         ends |-> [b \in 0..(n_bins - 1) |-> rows[b + 1][3]]]

(***************************************************************************)
(* The hash aggregation `*pixels.entry(key).or_insert(0) += c`             *)
(* (pair_builder.rs 69-70, zoom_builder.rs 69-70).                         *)
(***************************************************************************)
EmptyMap == [k \in {} |-> 0]

add_count_overwrite(map, key, c) ==
    [k \in DOMAIN map \cup {key} |-> IF k = key THEN c ELSE map[k]]

add_count(map, key, c) ==
    [k \in DOMAIN map \cup {key} |->
        IF k = key THEN (IF key \in DOMAIN map THEN map[key] ELSE 0) + c ELSE map[k]]

(***************************************************************************)
(* PairsBuilder (pair_builder.rs).  A contig name is modelled by the       *)
(* contig id name2order maps it to; a name absent from the catalog is an   *)
(* id outside the catalog.  Option<T> is <<>> (None) or the value.         *)
(***************************************************************************)
None == <<>>

\* PairsBuilder::new (pair_builder.rs 89-108), ZoomBuilder::new (zoom_builder.rs 18-31)
builder_new(tig_lengths, rsltn) ==
    LET tig_offsets == build_tig_offsets(rsltn, tig_lengths)
        n_bins == tig_offsets[n_tigs(tig_lengths)]
    IN  [rsltn |-> rsltn,
         n_bins |-> n_bins,
         tig_lengths |-> tig_lengths,
         tig_offsets |-> tig_offsets,
         bin_table |-> build_bin_table_from_lengths(n_bins, rsltn, tig_lengths)]

\* name2order.get(tig) is Some
known_tig(b, tig) == tig \in DOMAIN b.tig_lengths

\* the closure get_anchor (pair_builder.rs 119-121): max_len.min(anchor)
get_anchor(b, anchor, tig) ==
    IF b.tig_lengths[tig] <= anchor THEN b.tig_lengths[tig] ELSE anchor

\* pair_builder.rs 131: offset + (anchor / rsltn), for one anchor of a record
anchor_bin(b, anchor, tig) ==
    b.tig_offsets[tig] + (get_anchor(b, anchor, tig) \div b.rsltn)

\* pair_builder.rs 133
unordered_pair_kept(bin1, bin2) == <<bin1, bin2>>

unordered_pair(bin1, bin2) == IF bin1 <= bin2 THEN <<bin1, bin2>> ELSE <<bin2, bin1>>

\* PairsBuilder::pair_to_bin_rec (pair_builder.rs 118-135)
pair_to_bin_rec(b, record) ==
    IF known_tig(b, record.tig1) /\ known_tig(b, record.tig2)
    THEN unordered_pair(anchor_bin(b, record.pos1, record.tig1),
                        anchor_bin(b, record.pos2, record.tig2))
    ELSE None

\* pair_builder.rs 68-73: one turn of the reading loop of get_pixels
pairs_add_record_counting_unknown(b, pixels, record) ==
    LET bin_rec == pair_to_bin_rec(b, record)
    IN  IF bin_rec # None THEN add_count(pixels, bin_rec, 1) ELSE add_count(pixels, <<0, 0>>, 1)

pairs_add_record(b, pixels, record) ==
    LET bin_rec == pair_to_bin_rec(b, record)
    IN  IF bin_rec # None THEN add_count(pixels, bin_rec, 1) ELSE pixels

\* the lines of a pairs file that do not make a PairRecord: a line with
\* another number of fields than the lines before it, a position that is
\* not a number, a contig name that is not ASCII
UnparsableKinds == {"fields", "position", "non_ascii"}

\* where such a line ends get_pixels, each through a `?`:
\* read_byte_record (pair_builder.rs 64) when the line differs in length
\* from the lines before it, deserialize (66) when it is the first line
\* or holds no number, and as_ascii_str in pair_to_bin_rec (122-123, 68)
unparsable_error(kind, first) ==
    CASE kind = "fields" -> IF first THEN "csv::Error(Deserialize)"
                            ELSE "csv::Error(UnequalLengths)"
      [] kind = "position" -> "csv::Error(Deserialize)"
      [] kind = "non_ascii" -> "AsAsciiStrError"

UnparsableErrors == {unparsable_error(k, f) : k \in UnparsableKinds, f \in BOOLEAN}

(***************************************************************************)
(* RawPixelIterator (res_group.rs 163-194) and ZoomBuilder::get_pixels     *)
(* (zoom_builder.rs 51-77).                                                *)
(***************************************************************************)
\* res_group.rs 176
iter_advance(current, end, chunksize) ==
    IF end <= current + chunksize THEN end ELSE current + chunksize

\* ResGrpReader::read_pixel_chunk (reader.rs 104-109): the pixels
\* [start, end) of the stored arrays
read_pixel_chunk_after_start(pixels, start, end) == SubSeq(pixels, start + 2, end)

read_pixel_chunk(pixels, start, end) == SubSeq(pixels, start + 1, end)

\* zoom_builder.rs 59-67 for one source pixel: its key at the new
\* resolution, or "panic" (a bin id outside the source bin table at line
\* 61-62, or the assertion of line 67)
zoom_key_without_offsets(zb, from, pixel) ==
    LET bin1 == pixel[1]
        bin2 == pixel[2]
    IN  IF bin1 >= from.n_bins \/ bin2 >= from.n_bins THEN <<"panic">>
        ELSE LET new_bin1_id == from.starts[bin1] \div zb.new_res
                 new_bin2_id == from.starts[bin2] \div zb.new_res
             IN  IF new_bin1_id <= new_bin2_id THEN <<new_bin1_id, new_bin2_id>>
                 ELSE <<"panic">>

zoom_key(zb, from, pixel) ==
    LET bin1 == pixel[1]
        bin2 == pixel[2]
    IN  IF bin1 >= from.n_bins \/ bin2 >= from.n_bins THEN <<"panic">>
        ELSE LET new_bin1_id == zb.tig_offsets[from.chrs[bin1]] + (from.starts[bin1] \div zb.new_res)
                 new_bin2_id == zb.tig_offsets[from.chrs[bin2]] + (from.starts[bin2] \div zb.new_res)
             IN  IF new_bin1_id <= new_bin2_id THEN <<new_bin1_id, new_bin2_id>>
                 ELSE <<"panic">>

\* zoom_builder.rs 57-71: the body of the loop for one chunk; the result is
\* the aggregation after it and whether it panicked
zoom_add_chunk(zb, from, pixels, chunk) ==
    LET F[k \in 0..Len(chunk)] ==
            IF k = 0 THEN [pixels |-> pixels, panic |-> FALSE]
            ELSE LET acc == F[k - 1]
                     key == zoom_key(zb, from, chunk[k])
                 IN  IF acc.panic \/ Len(key) = 1 THEN [pixels |-> acc.pixels, panic |-> TRUE]
                     ELSE [pixels |-> add_count(acc.pixels, key, chunk[k][3]), panic |-> FALSE]
    IN  F[Len(chunk)]

(***************************************************************************)
(* get_zooming_order (matrix_builder.rs 70-100).  The result is the        *)
(* sequence of pairs <<resolution, pred>>, pred a 0-based position or -1.  *)
(***************************************************************************)
RECURSIVE SortNums(_)
SortNums(seq) ==
    IF Len(seq) = 0 THEN <<>>
    ELSE LET i == CHOOSE k \in 1..Len(seq) : \A l \in 1..Len(seq) : seq[k] <= seq[l]
         IN  <<seq[i]>> \o SortNums(SubSeq(seq, 1, i - 1) \o SubSeq(seq, i + 1, Len(seq)))

\* matrix_builder.rs 87-95: the scan for a predecessor of position i
\* (0-based), downwards from p
RECURSIVE find_pred(_, _, _)
find_pred(rsltns, i, p) ==
    IF p < 0 THEN -1
    ELSE IF rsltns[i + 1] % rsltns[p + 1] = 0 THEN p
    ELSE find_pred(rsltns, i, p - 1)

first_pred_pos(rsltns, i) == find_pred(rsltns, i, 0)

pred_pos(rsltns, i) == find_pred(rsltns, i, i - 1)

get_zooming_order(resolutions, new_resolutions) ==
    IF Len(resolutions) = 0 \/ Len(new_resolutions) = 0 THEN <<>>
    ELSE LET rsltns == SortNums(resolutions \o new_resolutions)
             new_res_set == {new_resolutions[k] : k \in 1..Len(new_resolutions)}
         IN  IF \E k \in 1..(Len(rsltns) - 1) : rsltns[k] = rsltns[k + 1] THEN <<>>
             ELSE IF rsltns[1] \in new_res_set THEN <<>>
             ELSE [k \in 1..Len(rsltns) |->
                      <<rsltns[k],
                        IF k > 1 /\ rsltns[k] \in new_res_set
                        THEN pred_pos(rsltns, k - 1) ELSE -1>>]

(***************************************************************************)
(* The values the variables of a component hold while a run is about       *)
(* another component.                                                      *)
(***************************************************************************)
NoOffs == [phase |-> "idle", total_bins |-> 0, pixels |-> <<>>, bin_offsets |-> <<>>]
NoTable == [phase |-> "idle"]
NoPairs == [phase |-> "idle"]
NoGrp == [phase |-> "idle"]
NoZoom == [phase |-> "idle"]
NoOrder == [phase |-> "idle"]
NoMat == [phase |-> "idle"]
NoBal == [phase |-> "idle"]
NoRgq == [phase |-> "idle"]
NoIter == [phase |-> "idle"]

ApiIdle == mat = NoMat /\ bal = NoBal /\ rgq = NoRgq /\ iter = NoIter

(***************************************************************************)
(* The stores a Selector2D can be opened on: what write_resolution_group   *)
(* persists for a sorted, pre-aggregated upper-triangular pixel list       *)
(* (writer.rs 106-160), with a weight per bin.                             *)
(***************************************************************************)
UpperCells(n) == {c \in (0..(n - 1)) \X (0..(n - 1)) : c[1] <= c[2]}

\* the stored counts: all 1, or a different count in every cell
CountMaps(cells, n) == {[c \in cells |-> 1], [c \in cells |-> 1 + c[1] * n + c[2]]}

BiasVecs(n) == {[b \in 0..(n - 1) |-> b + 2], [b \in 0..(n - 1) |-> 1]}

written_store(n, map, biases) ==
    LET pixels == sort_by_key(map)
    IN  [n_bins |-> n,
         bin1_id |-> [k \in 1..Len(pixels) |-> pixels[k][1]],
         bin2_id |-> [k \in 1..Len(pixels) |-> pixels[k][2]],
         count |-> [k \in 1..Len(pixels) |-> pixels[k][3]],
         bin_offsets |-> build_bin_offsets_from_pixels(n, pixels),
         biases |-> biases]

Stores ==
    UNION {
      UNION {
        {written_store(n, map, w) : map \in CountMaps(cells, n), w \in BiasVecs(n)}
          : cells \in {c \in SUBSET UpperCells(n) : Cardinality(c) <= MaxPixels}}
        : n \in 1..MaxBins}

NoStore == written_store(0, EmptyMap, <<>>)

Windows(n) == {w \in (0..n) \X (0..n) : w[1] < w[2]}

InitSel ==
    /\ store \in Stores
    /\ query = NoQuery
    /\ result = NoResult
    /\ offs = NoOffs /\ table = NoTable /\ order = NoOrder
    /\ pairs = NoPairs /\ grp = NoGrp /\ zoom = NoZoom
    /\ ApiIdle

\* One run of the model opens a store and answers one request: a Selector2D
\* is immutable (`&self`), so a request never depends on an earlier one.
RawQuery ==
    /\ query.kind = "none"
    /\ \E wi \in Windows(store.n_bins), wj \in Windows(store.n_bins) :
        /\ query' = [kind |-> "raw", i0 |-> wi[1], i1 |-> wi[2], j0 |-> wj[1], j1 |-> wj[2]]
        /\ result' = get_raw_submatrix(store, wi[1], wi[2], wj[1], wj[2])
    /\ UNCHANGED <<apiVars, store, offs, table, order, buildVars>>

BalancedQuery ==
    /\ query.kind = "none"
    /\ \E wi \in Windows(store.n_bins), wj \in Windows(store.n_bins) :
        /\ query' = [kind |-> "balanced", i0 |-> wi[1], i1 |-> wi[2], j0 |-> wj[1], j1 |-> wj[2]]
        /\ result' = get_balanced_submatrix(store, wi[1], wi[2], wj[1], wj[2])
    /\ UNCHANGED <<apiVars, store, offs, table, order, buildVars>>

NextSel == RawQuery \/ BalancedQuery

SpecSel == InitSel /\ [][NextSel]_vars

(***************************************************************************)
(* build_bin_offsets_from_pixels as a function of its input: a run draws   *)
(* a bin count and a sorted pixel list over those bins, and applies it.    *)
(***************************************************************************)
PixelLists(n) ==
    {sort_by_key([c \in cells |-> 1]) :
        cells \in {c \in SUBSET UpperCells(n) : Cardinality(c) <= MaxPixels}}

InitOff ==
    /\ \E n \in 0..MaxBins : \E pixels \in PixelLists(n) :
           offs = [phase |-> "input", total_bins |-> n, pixels |-> pixels,
                   bin_offsets |-> <<>>]
    /\ store = NoStore /\ query = NoQuery /\ result = NoResult
    /\ table = NoTable /\ order = NoOrder
    /\ pairs = NoPairs /\ grp = NoGrp /\ zoom = NoZoom
    /\ ApiIdle

GetBinOffsets ==
    /\ offs.phase = "input"
    /\ offs' = [offs EXCEPT !.phase = "built",
                            !.bin_offsets = build_bin_offsets_from_pixels(offs.total_bins, offs.pixels)]
    /\ UNCHANGED <<apiVars, selVars, table, order, buildVars>>

NextOff == GetBinOffsets

SpecOff == InitOff /\ [][NextOff]_vars

(***************************************************************************)
(* The constructors of the builders as a function of the contig lengths    *)
(* and the resolution (PairsBuilder::new, ZoomBuilder::new).               *)
(***************************************************************************)
Catalogs == UNION {[1..n -> 0..MaxLen] : n \in 0..MaxTigs}

InitTable ==
    /\ \E lens \in Catalogs, r \in 1..MaxRes :
           table = [phase |-> "input", tig_lengths |-> ZeroBased(lens), rsltn |-> r]
    /\ store = NoStore /\ query = NoQuery /\ result = NoResult
    /\ offs = NoOffs /\ order = NoOrder
    /\ pairs = NoPairs /\ grp = NoGrp /\ zoom = NoZoom
    /\ ApiIdle

NewBuilder ==
    /\ table.phase = "input"
    /\ table' = [phase |-> "built", builder |-> builder_new(table.tig_lengths, table.rsltn)]
    /\ UNCHANGED <<apiVars, selVars, offs, order, buildVars>>

NextTable == NewBuilder

SpecTable == InitTable /\ [][NextTable]_vars

(***************************************************************************)
(* get_zooming_order as a function of the registered resolutions (the keys *)
(* of Matrix::resolutions, so without repeats) and the requested ones.     *)
(***************************************************************************)
RECURSIVE SetToSeqDesc(_)
SetToSeqDesc(S) ==
    IF S = {} THEN <<>>
    ELSE LET m == CHOOSE x \in S : \A y \in S : y <= x
         IN  <<m>> \o SetToSeqDesc(S \ {m})

InitOrder ==
    /\ \E ex \in SUBSET (1..MaxResolution) :
       \E new \in UNION {[1..n -> 1..MaxResolution] : n \in 0..MaxNew} :
           order = [phase |-> "input", resolutions |-> SetToSeqDesc(ex),
                    new_resolutions |-> new, out |-> <<>>]
    /\ store = NoStore /\ query = NoQuery /\ result = NoResult
    /\ offs = NoOffs /\ table = NoTable
    /\ pairs = NoPairs /\ grp = NoGrp /\ zoom = NoZoom
    /\ ApiIdle

GetZoomingOrder ==
    /\ order.phase = "input"
    /\ order' = [order EXCEPT !.phase = "ordered",
                              !.out = get_zooming_order(order.resolutions, order.new_resolutions)]
    /\ UNCHANGED <<apiVars, selVars, offs, table, buildVars>>

NextOrder == GetZoomingOrder

SpecOrder == InitOrder /\ [][NextOrder]_vars

(***************************************************************************)
(* Building a resolution from a pairs file and zooming it: PairsBuilder's  *)
(* get_pixels reads the records one by one, write_matrix persists its      *)
(* result, and a ZoomBuilder streams the persisted pixels in chunks.       *)
(* The records of the file are kept as a bag: pairs.log.                   *)
(***************************************************************************)
\* the catalogs and resolutions a matrix is built from
BuildConfigs ==
    {<<(<<2>>), 1>>, <<(<<2, 3>>), 1>>, <<(<<2, 3>>), 2>>, <<(<<3, 2>>), 2>>}

\* an anchor names a contig of the catalog at some position, or a contig
\* the catalog does not hold
Anchors(b) ==
    (DOMAIN b.tig_lengths) \X (0..MaxPos) \cup {<<n_tigs(b.tig_lengths), 0>>}

Records(b) ==
    {[tig1 |-> a1[1], pos1 |-> a1[2], tig2 |-> a2[1], pos2 |-> a2[2]] :
        a1 \in Anchors(b), a2 \in Anchors(b)}

InitBuild ==
    /\ \E cfg \in BuildConfigs :
           pairs = [phase |-> "reading",
                    b |-> builder_new(ZeroBased(cfg[1]), cfg[2]),
                    log |-> EmptyBag, total |-> 0, pixels |-> EmptyMap, out |-> <<>>,
                    err |-> ""]
    /\ grp = NoGrp
    /\ zoom = NoZoom
    /\ store = NoStore /\ query = NoQuery /\ result = NoResult
    /\ offs = NoOffs /\ table = NoTable /\ order = NoOrder
    /\ ApiIdle

\* PairsBuilder::get_pixels, one turn of its loop (pair_builder.rs 64-78)
ReadRecord ==
    /\ pairs.phase = "reading"
    /\ BagCardinality(pairs.log) < MaxObs
    /\ \E record \in Records(pairs.b) :
           pairs' = [pairs EXCEPT !.log = @ (+) SetToBag({record}),
                                  !.total = @ + 1,
                                  !.pixels = pairs_add_record(pairs.b, @, record)]
    /\ UNCHANGED <<apiVars, selVars, offs, table, order, grp, zoom>>

\* PairsBuilder::get_pixels on a line that is no PairRecord: the error
\* leaves the function through `?` and the map of counts is dropped
\* (pair_builder.rs 64-68)
ReadUnparsable ==
    /\ pairs.phase = "reading"
    /\ \E kind \in UnparsableKinds :
           pairs' = [pairs EXCEPT !.phase = "failed",
                                  !.total = IF kind = "fields" /\ @ > 0 THEN @ ELSE @ + 1,
                                  !.pixels = EmptyMap,
                                  !.err = unparsable_error(kind, pairs.total = 0)]
    /\ UNCHANGED <<apiVars, selVars, offs, table, order, grp, zoom>>

\* PairsBuilder::get_pixels at the end of the file (pair_builder.rs 80-83)
PairsGetPixelsReturn ==
    /\ pairs.phase = "reading"
    /\ pairs' = [pairs EXCEPT !.phase = "done", !.out = sort_by_key(pairs.pixels)]
    /\ UNCHANGED <<apiVars, selVars, offs, table, order, grp, zoom>>

\* MatrixWriter::write_matrix (writer.rs 37-41, 106-160) and the ResGroup
\* read back from it (res_group.rs 29-37); the builder is dropped
WriteMatrix ==
    /\ pairs.phase = "done"
    /\ grp' = [phase |-> "stored",
               resolution |-> pairs.b.rsltn,
               tig_lengths |-> pairs.b.tig_lengths,
               n_bins |-> pairs.b.n_bins,
               n_pixels |-> Len(pairs.out),
               chrs |-> pairs.b.bin_table.chrs,
               starts |-> pairs.b.bin_table.starts,
               tig_offsets |-> pairs.b.tig_offsets,
               bin_offsets |-> build_bin_offsets_from_pixels(pairs.b.n_bins, pairs.out),
               pixels |-> pairs.out]
    /\ pairs' = NoPairs
    /\ UNCHANGED <<apiVars, selVars, offs, table, order, zoom>>

\* Matrix::zoom up to the first chunk (matrix.rs 91, zoom_builder.rs 18-31,
\* 52-56, res_group.rs 134-136, 185-193): `assert!(start < end)` panics on
\* a source without pixels
ZoomStart ==
    /\ grp.phase = "stored"
    /\ zoom.phase = "idle"
    /\ \E new_res \in (1..MaxRes) \ {grp.resolution}, chunksize \in 1..MaxChunk :
           LET zb == builder_new(grp.tig_lengths, new_res)
           IN  zoom' = [phase |-> IF 0 < grp.n_pixels THEN "streaming" ELSE "panic",
                        new_res |-> new_res,
                        n_new_bins |-> zb.n_bins,
                        tig_offsets |-> zb.tig_offsets,
                        chunksize |-> chunksize,
                        current |-> 0,
                        end |-> grp.n_pixels,
                        pixels |-> EmptyMap,
                        out |-> <<>>,
                        fault |-> FALSE]
    /\ UNCHANGED <<apiVars, selVars, offs, table, order, pairs, grp>>

\* RawPixelIterator::next returning a chunk, and the loop body on it
\* (res_group.rs 173-178, zoom_builder.rs 56-72)
ZoomChunk ==
    /\ zoom.phase = "streaming"
    /\ zoom.current < zoom.end
    /\ LET nxt == iter_advance(zoom.current, zoom.end, zoom.chunksize)
           chunk == read_pixel_chunk(grp.pixels, zoom.current, nxt)
           r == zoom_add_chunk(zoom, grp, zoom.pixels, chunk)
       IN  zoom' = [zoom EXCEPT !.current = nxt,
                                !.pixels = r.pixels,
                                !.phase = IF r.panic THEN "panic" ELSE "streaming"]
    /\ UNCHANGED <<apiVars, selVars, offs, table, order, pairs, grp>>

\* RawPixelIterator::next when read_pixel_chunk fails: `.ok()` makes it
\* None, the loop ends and get_pixels returns what it has (res_group.rs 177,
\* zoom_builder.rs 74-76)
ZoomReadFault ==
    /\ zoom.phase = "streaming"
    /\ zoom.current < zoom.end
    /\ zoom' = [zoom EXCEPT !.current = iter_advance(zoom.current, zoom.end, zoom.chunksize),
                            !.phase = "done",
                            !.fault = TRUE,
                            !.out = sort_by_key(zoom.pixels)]
    /\ UNCHANGED <<apiVars, selVars, offs, table, order, pairs, grp>>

\* RawPixelIterator::next at the end of the range, and the return of
\* ZoomBuilder::get_pixels (res_group.rs 179, zoom_builder.rs 74-76)
ZoomGetPixelsReturn ==
    /\ zoom.phase = "streaming"
    /\ zoom.current >= zoom.end
    /\ zoom' = [zoom EXCEPT !.phase = "done", !.out = sort_by_key(zoom.pixels)]
    /\ UNCHANGED <<apiVars, selVars, offs, table, order, pairs, grp>>

NextBuild ==
    \/ ReadRecord
    \/ ReadUnparsable
    \/ PairsGetPixelsReturn
    \/ WriteMatrix
    \/ ZoomStart
    \/ ZoomChunk
    \/ ZoomReadFault
    \/ ZoomGetPixelsReturn

SpecBuild == InitBuild /\ [][NextBuild]_vars

(***************************************************************************)
(* What the pixel arrays of a store hold, read without the offset index.   *)
(***************************************************************************)
Min(a, b) == IF a <= b THEN a ELSE b
Max(a, b) == IF a <= b THEN b ELSE a

HasPixel(st, a, b) ==
    \E k \in 1..Len(st.count) : st.bin1_id[k] = a /\ st.bin2_id[k] = b

CountAt(st, a, b) ==
    st.count[CHOOSE k \in 1..Len(st.count) : st.bin1_id[k] = a /\ st.bin2_id[k] = b]

\* the dense symmetric matrix restricted to a window, as a set of triples
DenseWindow(st, i0, i1, j0, j1) ==
    {<<rc[1], rc[2], CountAt(st, Min(rc[1], rc[2]), Max(rc[1], rc[2]))>> :
        rc \in {x \in (i0..(i1 - 1)) \X (j0..(j1 - 1)) :
                    HasPixel(st, Min(x[1], x[2]), Max(x[1], x[2]))}}

EqualLengths(res) == Len(res.is) = Len(res.js) /\ Len(res.js) = Len(res.vs)

Triples(res) == {<<res.is[k], res.js[k], res.vs[k]>> : k \in 1..Len(res.is)}

Occurrences(res, r, c) == {k \in 1..Len(res.is) : res.is[k] = r /\ res.js[k] = c}

(* C1: for every valid window, get_raw_submatrix returns three equally long
   vectors whose triples are exactly the dense symmetric matrix restricted
   to the caller's window (rows in [i0,i1), columns in [j0,j1)), every
   (row, col) once. *)
C1_RawSubmatrixIsDenseWindow ==
    query.kind = "raw" =>
        /\ EqualLengths(result)
        /\ Triples(result) = DenseWindow(store, query.i0, query.i1, query.j0, query.j1)
        /\ \A k, l \in 1..Len(result.is) :
               (result.is[k] = result.is[l] /\ result.js[k] = result.js[l]) => k = l

\* a swapped, nested window whose three sub-blocks all contribute
C1_Witness ==
    /\ query.kind = "raw"
    /\ query.i0 = 1 /\ query.i1 = 2 /\ query.j0 = 0 /\ query.j1 = 3
    /\ Len(result.is) = 3

(* C2: on a symmetric window the result holds every stored diagonal pixel of
   the window once and every stored off-diagonal pixel twice, as (r,c,v) and
   (c,r,v), and nothing else; so every (r,c) occurs at most once, the values
   at (r,c) and (c,r) agree, and a dense window gives (i1-i0)^2 entries. *)
C2_SymmetricWindowMirrored ==
    (query.kind = "raw" /\ query.i0 = query.j0 /\ query.i1 = query.j1) =>
        LET inside == {k \in 1..Len(store.count) :
                          query.i0 <= store.bin1_id[k] /\ store.bin2_id[k] < query.i1}
            diag == {k \in inside : store.bin1_id[k] = store.bin2_id[k]}
            w == query.i1 - query.i0
        IN  /\ EqualLengths(result)
            /\ \A k \in inside :
                   /\ Cardinality({m \in Occurrences(result, store.bin1_id[k], store.bin2_id[k]) :
                                      result.vs[m] = store.count[k]}) = 1
                   /\ Cardinality({m \in Occurrences(result, store.bin2_id[k], store.bin1_id[k]) :
                                      result.vs[m] = store.count[k]}) = 1
            /\ Len(result.is) = Cardinality(diag) + 2 * Cardinality(inside \ diag)
            /\ \A r, c \in query.i0..(query.i1 - 1) :
                   /\ Cardinality(Occurrences(result, r, c)) <= 1
                   /\ \A m \in Occurrences(result, r, c), m2 \in Occurrences(result, c, r) :
                          result.vs[m] = result.vs[m2]
            /\ (Cardinality(inside) = (w * (w + 1)) \div 2) => Len(result.is) = w * w

\* the dense window over three bins: nine entries
C2_Witness ==
    /\ query.kind = "raw"
    /\ query.i0 = 0 /\ query.i1 = 3 /\ query.j0 = 0 /\ query.j1 = 3
    /\ Len(store.count) = 6
    /\ Len(result.is) = 9

(* C3: get_balanced_submatrix returns the (row, col) sequence of
   get_raw_submatrix on the same window, and at each position the value
   count * weight[row] * weight[col] for the row and col reported there;
   get_raw_submatrix returns the stored count itself. *)
C3_BalancedScalesRaw ==
    /\ query.kind = "balanced" =>
          LET raw == get_raw_submatrix(store, query.i0, query.i1, query.j0, query.j1)
          IN  /\ EqualLengths(result)
              /\ result.is = raw.is /\ result.js = raw.js
              /\ \A k \in 1..Len(result.vs) :
                     result.vs[k] =
                         CountAt(store, Min(result.is[k], result.js[k]), Max(result.is[k], result.js[k]))
                           * store.biases[result.is[k]] * store.biases[result.js[k]]
    /\ query.kind = "raw" =>
          \A k \in 1..Len(result.vs) :
              result.vs[k] =
                  CountAt(store, Min(result.is[k], result.js[k]), Max(result.is[k], result.js[k]))

\* a transposed result whose row and column weights differ
C3_Witness ==
    /\ query.kind = "balanced"
    /\ query.j0 < query.i0
    /\ \E k \in 1..Len(result.vs) :
           /\ result.is[k] > result.js[k]
           /\ store.biases[result.is[k]] # store.biases[result.js[k]]
           /\ store.count[1] > 1

(* C5: build_bin_offsets_from_pixels returns n_bins+1 offsets whose
   successive differences are the numbers of pixels per bin1; the first is
   0, the last is the number of pixels and the array never decreases. *)
C5_OffsetsCountPixelsPerBin ==
    offs.phase = "built" =>
        LET n == offs.total_bins
            bo == offs.bin_offsets
        IN  /\ DOMAIN bo = 0..n
            /\ \A k \in 0..(n - 1) :
                   bo[k + 1] - bo[k] =
                       Cardinality({i \in 1..Len(offs.pixels) : offs.pixels[i][1] = k})
            /\ bo[0] = 0
            /\ bo[n] = Len(offs.pixels)
            /\ \A k \in 0..(n - 1) : bo[k] <= bo[k + 1]

\* a list whose first bin1 is not 0 and whose last bin owns no pixel
C5_Witness ==
    /\ offs.phase = "built"
    /\ offs.total_bins = 3
    /\ Len(offs.pixels) >= 2
    /\ offs.pixels[1][1] = 1
    /\ \A i \in 1..Len(offs.pixels) : offs.pixels[i][1] # 2
    /\ offs.bin_offsets[2] = Len(offs.pixels)

(***************************************************************************)
(* The bin layout read off a built builder.                                *)
(***************************************************************************)
\* ceil(len / rsltn) as the least m with m * rsltn >= len
CeilQuot(len, rsltn) == CHOOSE m \in 0..len : m * rsltn >= len /\ (m = 0 \/ (m - 1) * rsltn < len)

(* C8: chrom_offset starts at 0 and grows by ceil(length_c / R) per contig;
   the bins in [chrom_offset[c], chrom_offset[c+1]) are exactly the bins of
   contig c, the k-th covering [k*R, min((k+1)*R, length_c)), so that they
   tile [0, length_c) and only the last one may be shorter than R. *)
C8_BinsTileContigs ==
    table.phase = "built" =>
        LET b == table.builder
            lens == b.tig_lengths
            R == b.rsltn
            off == b.tig_offsets
            bt == b.bin_table
            n == n_tigs(lens)
        IN  /\ DOMAIN off = 0..n
            /\ off[0] = 0
            /\ \A c \in 0..(n - 1) : off[c + 1] - off[c] = CeilQuot(lens[c], R)
            /\ b.n_bins = off[n]
            /\ DOMAIN bt.chrs = 0..(b.n_bins - 1)
            /\ DOMAIN bt.starts = 0..(b.n_bins - 1)
            /\ DOMAIN bt.ends = 0..(b.n_bins - 1)
            /\ \A c \in 0..(n - 1) :
                   /\ {x \in 0..(b.n_bins - 1) : bt.chrs[x] = c} = off[c]..(off[c + 1] - 1)
                   /\ \A k \in 0..(off[c + 1] - off[c] - 1) :
                          /\ bt.starts[off[c] + k] = k * R
                          /\ bt.ends[off[c] + k] = Min((k + 1) * R, lens[c])
                          /\ bt.starts[off[c] + k] < bt.ends[off[c] + k]
                          /\ (k > 0) => bt.starts[off[c] + k] = bt.ends[off[c] + k - 1]
                          /\ (k < off[c + 1] - off[c] - 1) =>
                                 bt.ends[off[c] + k] - bt.starts[off[c] + k] = R
                   /\ (off[c] < off[c + 1]) =>
                          /\ bt.starts[off[c]] = 0
                          /\ bt.ends[off[c + 1] - 1] = lens[c]

\* two contigs, the first an exact multiple of R, the second ending in a
\* shorter bin
C8_Witness ==
    /\ table.phase = "built"
    /\ n_tigs(table.builder.tig_lengths) = 2
    /\ table.builder.rsltn = 2
    /\ table.builder.tig_lengths[0] = 4
    /\ table.builder.tig_lengths[1] = 3
    /\ table.builder.n_bins = 4
    /\ table.builder.bin_table.ends[3] - table.builder.bin_table.starts[3] = 1

(***************************************************************************)
(* The input and the result of get_zooming_order as sets.                  *)
(***************************************************************************)
Range(seq) == {seq[k] : k \in 1..Len(seq)}

SetMax(S) == CHOOSE x \in S : \A y \in S : y <= x

\* the inputs C10 is about: both lists non-empty, disjoint, without
\* repeats, the smallest resolution an existing one
OrderInputOk ==
    LET ex == Range(order.resolutions)
        nw == Range(order.new_resolutions)
    IN  /\ ex # {} /\ nw # {}
        /\ ex \cap nw = {}
        /\ Cardinality(nw) = Len(order.new_resolutions)
        /\ Cardinality(ex) = Len(order.resolutions)
        /\ \A t \in nw : \E e \in ex : e < t

\* all resolutions, in increasing order, existing ones with -1
OrderSortedAll ==
    LET all == Range(order.resolutions) \cup Range(order.new_resolutions)
        out == order.out
    IN  /\ Len(out) = Cardinality(all)
        /\ {out[k][1] : k \in 1..Len(out)} = all
        /\ \A k \in 1..(Len(out) - 1) : out[k][1] < out[k + 1][1]
        /\ \A k \in 1..Len(out) : out[k][1] \in Range(order.resolutions) => out[k][2] = -1

\* the resolutions smaller than t that divide it
SmallerDivisors(t) ==
    {d \in Range(order.resolutions) \cup Range(order.new_resolutions) : d < t /\ t % d = 0}

(* C10: on the inputs of OrderInputOk get_zooming_order returns all
   resolutions in increasing order, existing ones paired with -1; a target
   that some smaller resolution divides is paired with the position of the
   largest such resolution, and a target that none divides is paired with
   -1. *)
C10_PredecessorOrNone ==
    (order.phase = "ordered" /\ OrderInputOk) =>
        /\ OrderSortedAll
        /\ \A k \in 1..Len(order.out) :
               order.out[k][1] \in Range(order.new_resolutions) =>
                   IF SmallerDivisors(order.out[k][1]) # {}
                   THEN /\ order.out[k][2] \in 0..(k - 2)
                        /\ order.out[order.out[k][2] + 1][1] = SetMax(SmallerDivisors(order.out[k][1]))
                   ELSE order.out[k][2] = -1

\* the statement as the claim has it: every target gets the position of its
\* largest smaller divisor
C10_EveryTargetHasPredecessor ==
    (order.phase = "ordered" /\ OrderInputOk) =>
        /\ OrderSortedAll
        /\ \A k \in 1..Len(order.out) :
               order.out[k][1] \in Range(order.new_resolutions) =>
                   /\ SmallerDivisors(order.out[k][1]) # {}
                   /\ order.out[k][2] \in 0..(k - 2)
                   /\ order.out[order.out[k][2] + 1][1] = SetMax(SmallerDivisors(order.out[k][1]))

\* existing {2}, targets {3, 6}: 3 has no predecessor, 6 is built from 3
C10_Witness ==
    /\ order.phase = "ordered"
    /\ OrderInputOk
    /\ order.out = <<(<<2, -1>>), (<<3, -1>>), (<<6, 1>>)>>

(***************************************************************************)
(* The pixel lists of the builders against the records and pixels they     *)
(* were fed.                                                               *)
(***************************************************************************)
StrictlyAscendingUpper(list) ==
    /\ \A k \in 1..Len(list) : list[k][1] <= list[k][2]
    /\ \A k \in 1..(Len(list) - 1) :
           \/ list[k][1] < list[k + 1][1]
           \/ list[k][1] = list[k + 1][1] /\ list[k][2] < list[k + 1][2]

(* C4: the pixel list get_pixels returns, from PairsBuilder and from
   ZoomBuilder, has bin1 <= bin2 in every pixel and is strictly ascending
   in (bin1, bin2). *)
C4_PixelListsSortedUpper ==
    /\ pairs.phase = "done" => StrictlyAscendingUpper(pairs.out)
    /\ zoom.phase = "done" => StrictlyAscendingUpper(zoom.out)

\* a zoomed list of two pixels, made from a pairs list of two pixels
C4_Witness ==
    /\ zoom.phase = "done"
    /\ Len(zoom.out) = 2
    /\ Len(grp.pixels) = 2
    /\ zoom.out[1][1] < zoom.out[1][2]

\* the records of the log whose two contigs are in the catalog
Accepted(b, log) ==
    {r \in BagToSet(log) : known_tig(b, r.tig1) /\ known_tig(b, r.tig2)}

RECURSIVE SumCopies(_, _)
SumCopies(log, S) ==
    IF S = {} THEN 0
    ELSE LET r == CHOOSE x \in S : TRUE
         IN  CopiesIn(r, log) + SumCopies(log, S \ {r})

RECURSIVE SumCounts(_)
SumCounts(list) ==
    IF Len(list) = 0 THEN 0 ELSE list[1][3] + SumCounts(Tail(list))

(* C6: every anchor of an accepted record is clamped below its contig's
   length and gets a bin of its own contig's range
   [chrom_offset[c], chrom_offset[c+1]); every emitted pixel has bin1 and
   bin2 below n_bins. *)
C6_AnchorBinInOwnContig ==
    pairs.phase \in {"reading", "done"} =>
        LET b == pairs.b
        IN  /\ \A r \in Accepted(b, pairs.log) :
                   \A a \in {<<r.tig1, r.pos1>>, <<r.tig2, r.pos2>>} :
                       /\ get_anchor(b, a[2], a[1]) < b.tig_lengths[a[1]]
                       /\ b.tig_offsets[a[1]] <= anchor_bin(b, a[2], a[1])
                       /\ anchor_bin(b, a[2], a[1]) < b.tig_offsets[a[1] + 1]
            /\ \A k \in 1..Len(pairs.out) :
                   pairs.out[k][1] < b.n_bins /\ pairs.out[k][2] < b.n_bins

\* the accepted records of the log that fall on the bin pair {b1, b2}
Observed(b, log, b1, b2) ==
    SumCopies(log, {r \in Accepted(b, log) :
                       {anchor_bin(b, r.pos1, r.tig1), anchor_bin(b, r.pos2, r.tig2)} = {b1, b2}})

\* the reading loop of get_pixels over a list of records, and its return
pixels_of(b, records) ==
    LET F[k \in 0..Len(records)] ==
            IF k = 0 THEN EmptyMap ELSE pairs_add_record(b, F[k - 1], records[k])
    IN  sort_by_key(F[Len(records)])

\* contigs of length 1000 and 1500 at resolution 500 with three records
ExampleBuilder == builder_new(ZeroBased(<<1000, 1500>>), 500)

ExampleRecords ==
    <<[tig1 |-> 0, pos1 |-> 100, tig2 |-> 0, pos2 |-> 400],
      [tig1 |-> 0, pos1 |-> 100, tig2 |-> 0, pos2 |-> 400],
      [tig1 |-> 0, pos1 |-> 600, tig2 |-> 1, pos2 |-> 50]>>

(* C7: the count of every pixel (b1,b2) get_pixels of PairsBuilder emits is
   the number of accepted records of the file whose two anchors fall on the
   bins b1 and b2, in either order; a bin pair without such a record has no
   pixel; the counts add up to the number of accepted records; and the
   example of two contigs of 1000 and 1500 at R=500 gives 5 bins and the
   pixels (0,0,2) and (1,2,1). *)
C7_CountsAreObservations ==
    /\ pairs.phase = "done" =>
          LET b == pairs.b
              out == pairs.out
          IN  /\ \A k \in 1..Len(out) : out[k][3] = Observed(b, pairs.log, out[k][1], out[k][2])
              /\ \A b1, b2 \in 0..b.n_bins :
                     (b1 <= b2 /\ Observed(b, pairs.log, b1, b2) > 0) =>
                         \E k \in 1..Len(out) : out[k][1] = b1 /\ out[k][2] = b2
              /\ \A k \in 1..Len(out) : out[k][3] > 0
              /\ SumCounts(out) = SumCopies(pairs.log, Accepted(b, pairs.log))
    /\ ExampleBuilder.n_bins = 5
    /\ pixels_of(ExampleBuilder, ExampleRecords) = <<(<<0, 0, 2>>), (<<1, 2, 1>>)>>

\* one pixel of count 2 made by a record and the same record with its
\* anchors exchanged, next to a record that was skipped
C7_Witness ==
    /\ pairs.phase = "done"
    /\ \E r \in BagToSet(pairs.log) :
           /\ known_tig(pairs.b, r.tig1) /\ known_tig(pairs.b, r.tig2)
           /\ anchor_bin(pairs.b, r.pos1, r.tig1) < anchor_bin(pairs.b, r.pos2, r.tig2)
           /\ [tig1 |-> r.tig2, pos1 |-> r.pos2, tig2 |-> r.tig1, pos2 |-> r.pos1] \in BagToSet(pairs.log)
    /\ Len(pairs.out) = 1
    /\ pairs.out[1][3] = 2

(* C9: when the target resolution is a multiple of the source resolution
   and every chunk was read, the counts of the pixels ZoomBuilder::get_pixels
   returns add up to the counts of the source pixels, for every chunk
   size. *)
C9_ZoomConservesMass ==
    (zoom.phase = "done" /\ ~zoom.fault /\ zoom.new_res % grp.resolution = 0) =>
        SumCounts(zoom.out) = SumCounts(grp.pixels)

\* two source pixels streamed in two chunks and merged into one pixel
C9_Witness ==
    /\ zoom.phase = "done" /\ ~zoom.fault
    /\ zoom.new_res % grp.resolution = 0
    /\ zoom.chunksize = 1
    /\ Len(grp.pixels) = 2
    /\ Len(zoom.out) = 1
    /\ zoom.out[1][3] = 2

(***************************************************************************)
(* Matrix (matrix.rs) and the functions zoom and balance of                *)
(* matrix_builder.rs.  The store is what the file enumerates under         *)
(* /resolutions: the groups that are complete (stored), the groups that    *)
(* were created but hold no bins or pixels (partial) and the groups with a *)
(* weight array (weights).  `empty` says the pixel arrays of the stored    *)
(* groups hold no pixel.  One run opens a matrix and makes one call.       *)
(***************************************************************************)
Strategies == {"ICGenomeWide", "BinLength", "None"}

\* what balance_by_ic_genomewide makes of a resolution group: weights, the
\* `None` of an aborted correction, or the panic of get_raw_pixel_iter on a
\* group without pixels (res_group.rs 186)
IcOutcomes(m) == IF m.empty THEN {"panic"} ELSE {"some", "none"}

\* self.resolutions.get(&rstln) is Some (matrix.rs 66, 88)
resolutions_get_any(m, rstln) == TRUE

resolutions_get(m, rstln) == rstln \in m.registered

\* matrix.rs 69-73
balance_weights(strategy, ic) ==
    CASE strategy = "ICGenomeWide" -> ic
      [] strategy = "BinLength" -> "some"
      [] OTHER -> "none"

\* Matrix::balance (matrix.rs 64-84): the matrix after the call and what
\* the call returns
matrix_balance(m, rstln, strategy, ic) ==
    IF ~resolutions_get(m, rstln) THEN [m |-> m, ret |-> "MatrixResolutionError"]
    ELSE LET weights == balance_weights(strategy, ic)
         IN  CASE weights = "panic" -> [m |-> m, ret |-> "panic"]
               [] weights = "some" ->
                      [m |-> [m EXCEPT !.weights = @ \cup {rstln}], ret |-> "Ok"]
               [] OTHER -> [m |-> m, ret |-> "Ok"]

\* Matrix::zoom (matrix.rs 86-100) with write_resolution_group (writer.rs
\* 43-47, 106-138): create_group fails on a group the file already has;
\* the group is created before get_pixels runs
matrix_zoom(m, from_rstln, to_rstln) ==
    IF ~resolutions_get(m, from_rstln) THEN [m |-> m, ret |-> "MatrixResolutionError"]
    ELSE IF to_rstln \in m.stored \cup m.partial THEN [m |-> m, ret |-> "StorageError"]
    ELSE IF m.empty
         THEN [m |-> [m EXCEPT !.partial = @ \cup {to_rstln}], ret |-> "panic"]
    ELSE [m |-> [m EXCEPT !.stored = @ \cup {to_rstln},
                          !.registered = @ \cup {to_rstln}],
          ret |-> "Ok"]

RECURSIVE SetToSeqAsc(_)
SetToSeqAsc(S) ==
    IF S = {} THEN <<>>
    ELSE LET m == CHOOSE x \in S : \A y \in S : x <= y
         IN  <<m>> \o SetToSeqAsc(S \ {m})

\* the files a matrix is opened from
\* ... and the pairs file build_from_pairs_multi_res starts from, with no
\* matrix file yet (stored = {}); `empty` says the pairs file yields no pixel
InitMatrix ==
    /\ \E stored \in SUBSET (1..MaxResolution), empty \in BOOLEAN :
           mat = [phase |-> IF stored = {} THEN "unbuilt" ELSE "open",
                  stored |-> stored, partial |-> {}, weights |-> {},
                  registered |-> stored, empty |-> empty,
                  call |-> <<>>, before |-> <<>>, ret |-> "",
                  order |-> <<>>, i |-> 0, skipped |-> {}]
    /\ store = NoStore /\ query = NoQuery /\ result = NoResult
    /\ offs = NoOffs /\ table = NoTable /\ order = NoOrder
    /\ pairs = NoPairs /\ grp = NoGrp /\ zoom = NoZoom
    /\ bal = NoBal /\ rgq = NoRgq /\ iter = NoIter

matUnchanged == UNCHANGED <<selVars, offs, table, order, buildVars, bal, rgq, iter>>

\* Matrix::balance(rstln, strategy)
MatrixBalance ==
    /\ mat.phase = "open"
    /\ \E rstln \in 1..MaxResolution, strategy \in Strategies, ic \in IcOutcomes(mat) :
           LET r == matrix_balance(mat, rstln, strategy, ic)
           IN  mat' = [r.m EXCEPT !.phase = "returned",
                                  !.call = <<"balance", rstln, strategy, ic>>,
                                  !.before = [stored |-> mat.stored, partial |-> mat.partial,
                                              weights |-> mat.weights,
                                              registered |-> mat.registered],
                                  !.ret = r.ret]
    /\ matUnchanged

\* Matrix::zoom(from_rstln, to_rstln)
MatrixZoom ==
    /\ mat.phase = "open"
    /\ \E from_rstln \in 1..MaxResolution, to_rstln \in 1..MaxResolution :
           LET r == matrix_zoom(mat, from_rstln, to_rstln)
           IN  mat' = [r.m EXCEPT !.phase = "returned",
                                  !.call = <<"zoom", from_rstln, to_rstln>>,
                                  !.before = [stored |-> mat.stored, partial |-> mat.partial,
                                              weights |-> mat.weights,
                                              registered |-> mat.registered],
                                  !.ret = r.ret]
    /\ matUnchanged

\* `assert!(!rsltns.is_empty())` (matrix_builder.rs 57): what zoom has
\* returned when its loop starts, "" for nothing yet
assert_not_empty_as_error(rsltns) == IF Len(rsltns) = 0 THEN "MatrixResolutionError" ELSE ""

assert_not_empty(rsltns) == IF Len(rsltns) = 0 THEN "panic" ELSE ""

\* zoom(matrix_file, new_rslns) up to its loop (matrix_builder.rs 53-57) on
\* the matrix m read from the file: the order is computed, and the
\* assertion fails on an empty order
zoom_entry(m, call, new_rslns) ==
    LET rsltns == get_zooming_order(SetToSeqAsc(m.registered), new_rslns)
    IN  [m EXCEPT !.phase = IF assert_not_empty(rsltns) = "" THEN "zooming" ELSE "returned",
                  !.call = call,
                  !.before = [stored |-> m.stored, partial |-> m.partial,
                              weights |-> m.weights,
                              registered |-> m.registered],
                  !.ret = assert_not_empty(rsltns),
                  !.order = rsltns,
                  !.i = 0]

ZoomAllCall ==
    /\ mat.phase = "open"
    /\ \E new_rslns \in UNION {[1..n -> 1..MaxResolution] : n \in 0..MaxNew} :
           mat' = zoom_entry(mat, <<"zoom_all", new_rslns>>, new_rslns)
    /\ matUnchanged

\* build_from_pairs_multi_res up to the loop of its zoom (matrix_builder.rs
\* 36-43): build_from_pairs writes the first resolution and balances it
\* (matrix_builder.rs 22-34), then zoom is entered with the rest of the
\* list; the last entry of the call says whether zoom was entered
BuildMultiResCall ==
    /\ mat.phase = "unbuilt"
    /\ \E rslns \in UNION {[1..n -> 1..MaxResolution] : n \in 1..MaxNew},
          strategy \in Strategies, ic \in IcOutcomes(mat) :
           LET built == [mat EXCEPT !.stored = {rslns[1]}, !.registered = {rslns[1]}]
               b == matrix_balance(built, rslns[1], strategy, ic)
           IN  mat' = IF b.ret # "Ok"
                      THEN [b.m EXCEPT !.phase = "returned",
                                       !.call = <<"multi_res", rslns, strategy, FALSE>>,
                                       !.before = [stored |-> b.m.stored, partial |-> b.m.partial,
                                                   weights |-> b.m.weights,
                                                   registered |-> b.m.registered],
                                       !.ret = b.ret]
                      ELSE zoom_entry(b.m, <<"multi_res", rslns, strategy, TRUE>>, Tail(rslns))
    /\ matUnchanged

\* one turn of the loop of zoom (matrix_builder.rs 59-64); i is the 0-based
\* position of the turn
ZoomAllStep ==
    /\ mat.phase = "zooming"
    /\ mat.i < Len(mat.order)
    /\ LET res == mat.order[mat.i + 1]
       IN  IF res[2] # -1
           THEN LET prev_res == mat.order[res[2] + 1][1]
                    r == matrix_zoom(mat, prev_res, res[1])
                IN  mat' = IF r.ret = "Ok"
                           THEN [r.m EXCEPT !.i = @ + 1]
                           ELSE [r.m EXCEPT !.phase = "returned", !.ret = r.ret]
           ELSE mat' = [mat EXCEPT !.i = @ + 1,
                                   !.skipped = @ \cup ({res[1]} \ mat.before.registered)]
    /\ matUnchanged

\* the return of zoom after its loop (matrix_builder.rs 66)
ZoomAllReturn ==
    /\ mat.phase = "zooming"
    /\ mat.i >= Len(mat.order)
    /\ mat.call[1] = "zoom_all"
    /\ mat' = [mat EXCEPT !.phase = "returned", !.ret = "Ok"]
    /\ matUnchanged

\* balance(matrix_file, rslns, strategy) (matrix_builder.rs 47-51): the
\* resolutions are balanced in turn, ics[k] being what the correction of
\* the k-th makes, and the first error ends the call
RECURSIVE balance_all(_, _, _, _)
balance_all(m, rslns, strategy, ics) ==
    IF Len(rslns) = 0 THEN [m |-> m, ret |-> "Ok"]
    ELSE the({IF r.ret # "Ok" THEN r
              ELSE balance_all(r.m, Tail(rslns), strategy, Tail(ics)) :
                 r \in {matrix_balance(m, rslns[1], strategy, ics[1])}})

\* the end of build_from_pairs_multi_res after its zoom has returned Ok
\* (matrix_builder.rs 43-44)
BuildMultiResBalance ==
    /\ mat.phase = "zooming"
    /\ mat.i >= Len(mat.order)
    /\ mat.call[1] = "multi_res"
    /\ \E ics \in [1..(Len(mat.call[2]) - 1) -> IcOutcomes(mat)] :
         \E r \in {balance_all(mat, Tail(mat.call[2]), mat.call[3], ics)} :
           mat' = [r.m EXCEPT !.phase = "returned", !.ret = r.ret]
    /\ matUnchanged

NextMatrix ==
    \/ MatrixBalance
    \/ MatrixZoom
    \/ ZoomAllCall
    \/ ZoomAllStep
    \/ ZoomAllReturn
    \/ BuildMultiResCall
    \/ BuildMultiResBalance

SpecMatrix == InitMatrix /\ [][NextMatrix]_vars

\* the targets of a zoom call that no smaller resolution, existing or
\* target, divides
Undivided(existing, targets) ==
    {t \in targets : ~\E d \in existing \cup targets : d < t /\ t % d = 0}

(* C11: a call of zoom with a target that none of the smaller resolutions
   divides does not return Ok. *)
C11_UndividedTargetIsAnError ==
    (/\ mat.phase = "returned"
     /\ mat.call[1] = "zoom_all"
     /\ Undivided(mat.before.registered, Range(mat.call[2])) # {}) =>
        mat.ret # "Ok"

(***************************************************************************)
(* Balancer::balance_by_ic_genomewide (balancer.rs).  The counts and the   *)
(* marginals of the two filters are integers; a weight (f64) is kept as    *)
(* "zero", "pos" (a positive finite number) or "nan", and a weighted       *)
(* marginal as "zero" or "pos": f64 arithmetic is taken as exact, so a     *)
(* product or quotient of positive numbers is positive.  The pixels of a   *)
(* group fit one chunk of CHUNKSIZE.                                       *)
(***************************************************************************)
\* Balancer::new (balancer.rs 47-55)
ignore_diags == 3
min_nnz == 5
n_iters == 400

\* balancer.rs 186-192
zeroing_diags(pixels) ==
    [k \in 1..Len(pixels) |->
        LET b1 == pixels[k][1]
            b2 == pixels[k][2]
            diff == IF b1 > b2 THEN b1 - b2 ELSE b2 - b1
        IN  <<b1, b2, IF diff < ignore_diags THEN 0 ELSE pixels[k][3]>>]

\* balancer.rs 194-197
binarize(data) ==
    [k \in 1..Len(data) |-> <<data[k][1], data[k][2], IF data[k][3] # 0 THEN 1 ELSE 0>>]

\* Balancer::marginalize (balancer.rs 199-204) with utils::bincount
\* (utils.rs 74-86): m1 + m2
bincount(length, which, data) ==
    LET top == IF Len(data) = 0 THEN 0
               ELSE data[CHOOSE k \in 1..Len(data) :
                             \A l \in 1..Len(data) : data[l][3] <= data[k][3]][3]
    IN  [b \in 0..(length - 1) |->
            Cardinality({x \in (1..Len(data)) \X (1..top) :
                            data[x[1]][which] = b /\ x[2] <= data[x[1]][3]})]

marginalize(n_bins, data) ==
    LET m1 == bincount(n_bins, 1, data)
        m2 == bincount(n_bins, 2, data)
    IN  [b \in 0..(n_bins - 1) |-> m1[b] + m2[b]]

\* balancer.rs 212-215
filter_by_predicate(predicate, array) ==
    [b \in DOMAIN array |-> IF predicate[b] THEN "zero" ELSE array[b]]

\* the bins filter_few_nnzs zeroes (balancer.rs 76-85)
few_nnz_bins(g) ==
    LET res == marginalize(g.n_bins, binarize(zeroing_diags(g.pixels)))
    IN  {b \in 0..(g.n_bins - 1) : res[b] < min_nnz}

\* the marginals filter_bins_by_mad starts from (balancer.rs 88-92)
mad_marginals(g) == marginalize(g.n_bins, zeroing_diags(g.pixels))

\* pipe_product and the marginal sums of calc_mean_and_var_of_matrix
\* (balancer.rs 155-159, 179-184, 206-210): which sums are not 0
weighted_marginals(g, bias) ==
    LET data == zeroing_diags(g.pixels)
        touched == {b \in 0..(g.n_bins - 1) :
                       \E k \in 1..Len(data) :
                           /\ b \in {data[k][1], data[k][2]}
                           /\ data[k][3] # 0
                           /\ bias[data[k][1]] = "pos" /\ bias[data[k][2]] = "pos"}
    IN  [b \in 0..(g.n_bins - 1) |-> IF b \in touched THEN "pos" ELSE "zero"]

\* calc_mean_and_var_of_matrix (balancer.rs 154-165): None on a group
\* without bins and when no marginal is nonzero (mean() of an empty array)
calc_mean_and_var_of_matrix(g, bias) ==
    LET res == weighted_marginals(g, bias)
    IN  IF g.n_bins = 0 \/ \A b \in DOMAIN res : res[b] = "zero" THEN None
        ELSE <<res>>

\* balancer.rs 128-129: data is 1 where the marginal is 0 and
\* marginal / mean elsewhere, and the weight is divided by it
corrected_weight_revived(b, d) == IF d = "zero" THEN "pos" ELSE b

corrected_weight(b, d) == IF b = "zero" THEN "zero" ELSE b

\* balancer.rs 143
rescaled_weight(x) == IF x = "zero" THEN "nan" ELSE x

\* the resolution groups a balancer is run on: one or two contigs over n
\* bins, with the pixels of all cells, of all cells but those of the first
\* or the last bin off the diagonal, or with no pixel at all
BalPixels(n, dropped) ==
    LET cells == {x \in UpperCells(n) :
                     (x[1] \in dropped \/ x[2] \in dropped) => x[1] = x[2]}
    IN  [k \in 1..Cardinality(cells) |->
            LET c == CHOOSE x \in cells : Cardinality({y \in cells : KeyLess(y, x)}) = k - 1
            IN  <<c[1], c[2], 1>>]

BalGroups ==
    UNION {
      {[n_bins |-> n, tig_offsets |-> offsets, pixels |-> pixels] :
          offsets \in {ZeroBased(<<0, n>>), ZeroBased(<<0, 1, n>>)},
          pixels \in {BalPixels(n, d) : d \in {{}, {0}, {n - 1}}} \cup {<<>>}}
        : n \in {1, ignore_diags, BalBins}}

InitBal ==
    /\ \E g \in BalGroups :
           bal = [phase |-> "start", g |-> g,
                  bias |-> [b \in 0..(g.n_bins - 1) |-> "pos"],
                  few |-> {}, mad |-> {}, iteration |-> 0, ret |-> ""]
    /\ store = NoStore /\ query = NoQuery /\ result = NoResult
    /\ offs = NoOffs /\ table = NoTable /\ order = NoOrder
    /\ pairs = NoPairs /\ grp = NoGrp /\ zoom = NoZoom
    /\ mat = NoMat /\ rgq = NoRgq /\ iter = NoIter

balUnchanged == UNCHANGED <<selVars, offs, table, order, buildVars, mat, rgq, iter>>

\* filter_few_nnzs (balancer.rs 76-85); get_raw_pixel_iter asserts that
\* the group has a pixel (res_group.rs 134-136, 186)
FilterFewNnzs ==
    /\ bal.phase = "start"
    /\ IF Len(bal.g.pixels) = 0
       THEN bal' = [bal EXCEPT !.phase = "returned", !.ret = "panic"]
       ELSE LET few == few_nnz_bins(bal.g)
            IN  bal' = [bal EXCEPT !.phase = "few",
                                   !.few = few,
                                   !.bias = filter_by_predicate(
                                                [b \in DOMAIN bal.bias |-> b \in few], @)]
    /\ balUnchanged

\* filter_bins_by_mad (balancer.rs 87-121).  The cutoff exists when some
\* marginal is not 0; it is positive, so every bin of marginal 0 is below
\* it, and which other bins are below it is left open (none or one of
\* them, never all)
FilterBinsByMad ==
    /\ bal.phase = "few"
    /\ LET res == mad_marginals(bal.g)
           nnz == {b \in DOMAIN res : res[b] # 0}
       IN  IF nnz = {}
           THEN bal' = [bal EXCEPT !.phase = "iterating"]
           ELSE \E cut \in {c \in SUBSET nnz : Cardinality(c) <= 1 /\ c # nnz} :
                    LET below == (DOMAIN res \ nnz) \cup cut
                    IN  bal' = [bal EXCEPT !.phase = "iterating",
                                           !.mad = below,
                                           !.bias = filter_by_predicate(
                                                        [b \in DOMAIN bal.bias |-> b \in below], @)]
    /\ balUnchanged

\* one turn of the loop of do_iterative_corrections (balancer.rs 124-138);
\* whether the variance is below var_bound is left open
IterativeCorrection ==
    /\ bal.phase = "iterating"
    /\ bal.iteration < n_iters
    /\ LET mv == calc_mean_and_var_of_matrix(bal.g, bal.bias)
       IN  IF mv = None
           THEN bal' = [bal EXCEPT !.phase = "returned", !.ret = "None"]
           ELSE \E below_bound \in BOOLEAN :
                    bal' = [bal EXCEPT
                               !.bias = [b \in DOMAIN bal.bias |->
                                            corrected_weight(bal.bias[b], mv[1][b])],
                               !.iteration = @ + 1,
                               !.phase = IF below_bound \/ bal.iteration + 1 = n_iters
                                         THEN "rescale" ELSE "iterating"]
    /\ balUnchanged

\* do_iterative_corrections after its loop (balancer.rs 140-150)
Rescale ==
    /\ bal.phase = "rescale"
    /\ LET mv == calc_mean_and_var_of_matrix(bal.g, bal.bias)
       IN  IF mv = None
           THEN bal' = [bal EXCEPT !.phase = "returned", !.ret = "None"]
           ELSE bal' = [bal EXCEPT !.phase = "returned", !.ret = "Some",
                                   !.bias = [b \in DOMAIN bal.bias |-> rescaled_weight(bal.bias[b])]]
    /\ balUnchanged

NextBal ==
    \/ FilterFewNnzs
    \/ FilterBinsByMad
    \/ IterativeCorrection
    \/ Rescale

SpecBal == InitBal /\ [][NextBal]_vars

(* C12: balance_by_ic_genomewide never panics: on every resolution group,
   degenerate ones included, it returns a weight vector or None. *)
C12_BalancingNeverPanics ==
    bal.phase = "returned" => bal.ret \in {"Some", "None"}

(* C13: when the iterative correction of a registered resolution is
   aborted (balance_by_ic_genomewide returns None), Matrix::balance writes
   no weights and does not return Ok. *)
C13_AbortedBalanceIsAnError ==
    (/\ mat.phase = "returned"
     /\ mat.call[1] = "balance"
     /\ mat.call[2] \in mat.before.registered
     /\ mat.call[3] = "ICGenomeWide"
     /\ mat.call[4] = "none") =>
        /\ mat.weights = mat.before.weights
        /\ mat.ret # "Ok"

(* C14: in a weight vector balance_by_ic_genomewide returns, every bin the
   min_nnz filter or the MAD filter excluded is NaN; until then the weight
   of an excluded bin is 0 in every turn of the correction loop. *)
C14_ExcludedBinsAreNaN ==
    /\ bal.phase \in {"iterating", "rescale"} =>
           \A b \in bal.few \cup bal.mad : bal.bias[b] = "zero"
    /\ (bal.phase = "returned" /\ bal.ret = "Some") =>
           \A b \in bal.few \cup bal.mad : bal.bias[b] = "nan"

\* weights returned after two turns of the loop, with a bin excluded by
\* each filter and a bin that kept a finite weight
C14_Witness ==
    /\ bal.phase = "returned" /\ bal.ret = "Some"
    /\ bal.iteration = 2
    /\ bal.few # {}
    /\ bal.mad \ bal.few # {}
    /\ \E b \in DOMAIN bal.bias : bal.bias[b] = "pos"
    /\ \A b \in bal.few \cup bal.mad : bal.bias[b] = "nan"


(* C17: Matrix::balance and Matrix::zoom called for a resolution that is   *)
(* not registered (for zoom: the source resolution) return                 *)
(* MatrixResolutionError, write nothing to the file, neither pixels nor    *)
(* weights nor a partial group, and leave the registered set as it was.    *)
C17_UnregisteredResolutionRejected ==
    (/\ mat.phase = "returned"
     /\ mat.call[1] \in {"balance", "zoom"}
     /\ mat.call[2] \notin mat.before.registered) =>
        /\ mat.ret = "MatrixResolutionError"
        /\ mat.stored = mat.before.stored
        /\ mat.partial = mat.before.partial
        /\ mat.weights = mat.before.weights
        /\ mat.registered = mat.before.registered

C17_Witness ==
    /\ mat.phase = "returned"
    /\ mat.call[1] = "zoom"
    /\ mat.call[2] \notin mat.before.registered
    /\ mat.call[3] \notin mat.before.registered
    /\ mat.ret = "MatrixResolutionError"
    /\ mat.registered = mat.before.registered

C17_BalanceWitness ==
    /\ mat.phase = "returned"
    /\ mat.call[1] = "balance"
    /\ mat.call[2] \notin mat.before.registered
    /\ mat.call[3] = "ICGenomeWide"
    /\ mat.ret = "MatrixResolutionError"
    /\ mat.weights = mat.before.weights


(***************************************************************************)
(* ResGroup: the balanced queries of a resolution group (res_group.rs      *)
(* 58-105, 146-151).  A group is [n_bins, reader, selector]; the selector  *)
(* is None until init_selector has run, and Some(Selector2D) after.        *)
(***************************************************************************)
\* ResGroup::new (res_group.rs 29-37)
res_group_new(st) == [n_bins |-> st.n_bins, reader |-> st, selector |-> None]

\* the `weight` dataset of a group that was never given one: balancing
\* creates it (writer.rs 93-104), write_bins_description does not (writer.rs
\* 119-126)
NoWeights == <<"absent">>

\* Selector2D::new (selector.rs 15-21): the offsets and the weights are read
\* once, and a missing `weight` dataset is the Err of read_bin_table_weights
\* (reader.rs 145-148); the Err is None here
selector_new_unchecked(reader) == <<reader>>

selector_new(reader) == IF reader.biases = NoWeights THEN None ELSE <<reader>>

\* ResGroup::init_selector (res_group.rs 39-44): the group after the call;
\* `?` returns before the assignment when Selector2D::new fails
init_selector_always(g) == [g EXCEPT !.selector = selector_new(g.reader)]

init_selector(g) ==
    IF g.selector = None THEN [g EXCEPT !.selector = selector_new(g.reader)] ELSE g

\* ... and what the call returns
init_selector_ret(g) ==
    IF g.selector = None /\ selector_new(g.reader) = None THEN "StorageError" ELSE "Ok"

\* the index check of get_balanced_submatrix_as_array (res_group.rs 60-61)
window_out_of_range_unbounded(n_bins, i0, i1, j0, j1) == (i0 >= i1) \/ (j0 >= j1)

window_out_of_range(n_bins, i0, i1, j0, j1) ==
    (i0 >= i1) \/ (j0 >= j1) \/ (i1 > n_bins) \/ (j1 > n_bins)
        \/ (i0 >= n_bins) \/ (j0 >= n_bins)

\* the index check of get_balanced_row_as_nnz_elems (res_group.rs 93)
row_out_of_range(n_bins, row_id) == row_id >= n_bins

\* `self.selector.is_none()` (res_group.rs 65, 97)
selector_is_none_never(g) == FALSE

selector_is_none(g) == g.selector = None

\* the blocks get_rectangle hands to get_triu_nnz_bins (selector.rs 43,
\* 56-63, 68, 75-77, 95-97), as <<i0, i1, j0, j1>>
triu_blocks(i0, i1, j0, j1) ==
    IF <<i0, i1>> = <<j0, j1>> THEN {<<i0, i1, i0, i1>>}
    ELSE LET swap == j0 < i0 \/ (i0 = j0 /\ i1 < j1)
             a0 == IF swap THEN j0 ELSE i0
             a1 == IF swap THEN j1 ELSE i1
             b0 == IF swap THEN i0 ELSE j0
             b1 == IF swap THEN i1 ELSE j1
         IN  CASE classify(a0, a1, b0, b1) = "non_overlapping" -> {<<a0, a1, b0, b1>>}
               [] classify(a0, a1, b0, b1) = "nested" ->
                      {<<a0, b0, b0, b1>>, <<b0, b1, b0, b1>>, <<b0, b1, b1, a1>>}
               [] classify(a0, a1, b0, b1) = "coming_before" ->
                      {<<a0, b0, b0, a1>>, <<b0, a1, b0, a1>>, <<a0, a1, a1, b1>>}
               [] OTHER -> {}

\* the positions of bin_offsets one block reads: `slice(s!(i0..=i1))`
\* (selector.rs 137), nothing for an empty block (selector.rs 129-131)
offsets_read(blk) ==
    IF blk[1] >= blk[2] \/ blk[3] >= blk[4] THEN {} ELSE blk[1]..blk[2]

\* a request the selector answers without leaving bin_offsets and without
\* the `It should not happen` branch (selector.rs 113, 137); the biases are
\* read at the bins of stored pixels only, all below n_bins
selector_in_bounds(st, i0, i1, j0, j1) ==
    /\ i0 # j0 \/ i1 # j1 =>
           LET swap == j0 < i0 \/ (i0 = j0 /\ i1 < j1)
           IN  IF swap THEN classify(j0, j1, i0, i1) # "panic"
               ELSE classify(i0, i1, j0, j1) # "panic"
    /\ \A blk \in triu_blocks(i0, i1, j0, j1) :
           offsets_read(blk) \subseteq DOMAIN st.bin_offsets

\* `v.is_finite()`: the weights of the stores are finite numbers
is_finite(v) == v \in Int

\* ResGroup::get_balanced_submatrix (res_group.rs 146-151)
res_group_get_balanced_submatrix(g, i0, i1, j0, j1) ==
    IF g.selector = None \/ ~selector_in_bounds(g.reader, i0, i1, j0, j1)
    THEN [ret |-> "panic", out |-> NoResult]
    ELSE [ret |-> "Ok", out |-> get_balanced_submatrix(g.selector[1], i0, i1, j0, j1)]

\* the elements of a selector answer that `matrix[[b1, b2]] = v` writes
\* to one cell of the array (res_group.rs 71-74)
cell_hits(res, i0, j0, c) ==
    {k \in 1..Len(res.is) : /\ res.is[k] - i0 = c[1] /\ res.js[k] - j0 = c[2]
                            /\ is_finite(res.vs[k])}

\* the last write to a cell wins; a cell never written stays 0
last_write(hits, vs) ==
    IF hits = {} THEN 0 ELSE vs[CHOOSE k \in hits : \A l \in hits : l <= k]

\* res_group.rs 70-76: the array filled from the selector's answer r, a
\* function over the cells of the window; `oob` is an access outside the
\* array (`b1 as usize - i0`, `matrix[[b1, b2]]`)
submatrix_fill(r, cells, i0, j0) ==
    IF r.ret = "panic" THEN [ret |-> "panic", out |-> <<>>, oob |-> TRUE]
    ELSE IF \E k \in 1..Len(r.out.is) : <<r.out.is[k] - i0, r.out.js[k] - j0>> \notin cells
    THEN [ret |-> "panic", out |-> <<>>, oob |-> TRUE]
    ELSE [ret |-> "Ok",
          out |-> [c \in cells |-> last_write(cell_hits(r.out, i0, j0, c), r.out.vs)],
          oob |-> FALSE]

\* ResGroup::get_balanced_submatrix_as_array (res_group.rs 58-77)
get_balanced_submatrix_as_array(g, i0, i1, j0, j1) ==
    IF window_out_of_range(g.n_bins, i0, i1, j0, j1)
    THEN [ret |-> "MatrixIndexError", out |-> <<>>, oob |-> FALSE]
    ELSE IF selector_is_none(g)
    THEN [ret |-> "SelectorUninitError", out |-> <<>>, oob |-> FALSE]
    ELSE the({submatrix_fill(r, (0..(i1 - i0 - 1)) \X (0..(j1 - j0 - 1)), i0, j0) :
                 r \in {res_group_get_balanced_submatrix(g, i0, i1, j0, j1)}})

\* `res.sort_by_key(|x| x.0)`: the elements of `keep` that a stable sort
\* by column puts before element k (res_group.rs 103)
sorted_before(res, keep, k) ==
    {l \in keep : res.js[l] < res.js[k] \/ (res.js[l] = res.js[k] /\ l < k)}

\* the element a stable sort by column puts at position p
sorted_at(res, keep, p) ==
    CHOOSE k \in keep : Cardinality(sorted_before(res, keep, k)) = p - 1

\* res_group.rs 101-104: the finite elements of the row, sorted by column
row_elems(r, keep) ==
    IF r.ret = "panic" THEN [ret |-> "panic", out |-> <<>>, oob |-> TRUE]
    ELSE [ret |-> "Ok",
          out |-> [p \in 1..Cardinality(keep) |->
                      <<r.out.js[sorted_at(r.out, keep, p)],
                        r.out.vs[sorted_at(r.out, keep, p)]>>],
          oob |-> FALSE]

finite_elems(r) == {k \in 1..Len(r.out.js) : is_finite(r.out.vs[k])}

\* ResGroup::get_balanced_row_as_nnz_elems (res_group.rs 92-105)
get_balanced_row_as_nnz_elems(g, row_id) ==
    IF row_out_of_range(g.n_bins, row_id)
    THEN [ret |-> "MatrixIndexError", out |-> <<>>, oob |-> FALSE]
    ELSE IF selector_is_none(g)
    THEN [ret |-> "SelectorUninitError", out |-> <<>>, oob |-> FALSE]
    ELSE the({row_elems(r, finite_elems(r)) :
                 r \in {res_group_get_balanced_submatrix(g, row_id, row_id + 1, 0, g.n_bins)}})

\* the elements of a row written to one position of the array
row_hits(elems, b) == {p \in 1..Len(elems) : elems[p][1] = b}

last_hit(hits) == CHOOSE p \in hits : \A q \in hits : q <= p

\* res_group.rs 85-89: `row[*b2 as usize] = *v` for every element
row_fill(nnz_elems, n_bins) ==
    IF nnz_elems.ret # "Ok" THEN nnz_elems
    ELSE IF \E p \in 1..Len(nnz_elems.out) : nnz_elems.out[p][1] \notin 0..(n_bins - 1)
    THEN [ret |-> "panic", out |-> <<>>, oob |-> TRUE]
    ELSE [ret |-> "Ok",
          out |-> [b \in 0..(n_bins - 1) |->
                      IF row_hits(nnz_elems.out, b) = {} THEN 0
                      ELSE nnz_elems.out[last_hit(row_hits(nnz_elems.out, b))][2]],
          oob |-> FALSE]

\* ResGroup::get_balanced_row_as_array (res_group.rs 83-90)
get_balanced_row_as_array(g, row_id) ==
    the({row_fill(nnz_elems, g.n_bins) :
            nnz_elems \in {get_balanced_row_as_nnz_elems(g, row_id)}})

\* ResGroup::get_balanced_column_as_array (res_group.rs 79-81)
get_balanced_column_as_array(g, col_id) == get_balanced_row_as_array(g, col_id)

\* the groups a query is sent to: no bin at all, or up to MaxBins bins with
\* no pixel, every off-diagonal pixel or every pixel of the upper triangle
RgqStores ==
    {NoStore} \cup
    UNION {{written_store(n, map, w) :
                map \in UNION {CountMaps(cells, n) :
                                  cells \in {{}, UpperCells(n),
                                             {c \in UpperCells(n) : c[1] # c[2]}}},
                w \in BiasVecs(n)} : n \in 1..MaxBins}

InitRgq ==
    /\ \E st \in RgqStores, initialised \in BOOLEAN :
           rgq = [phase |-> "open",
                  grp |-> IF initialised THEN init_selector(res_group_new(st))
                          ELSE res_group_new(st),
                  before |-> <<>>, call |-> <<>>, ret |-> "", out |-> <<>>, oob |-> FALSE]
    /\ store = NoStore /\ query = NoQuery /\ result = NoResult
    /\ offs = NoOffs /\ table = NoTable /\ order = NoOrder
    /\ pairs = NoPairs /\ grp = NoGrp /\ zoom = NoZoom
    /\ mat = NoMat /\ bal = NoBal /\ iter = NoIter

rgqUnchanged == UNCHANGED <<selVars, offs, table, order, buildVars, mat, bal, iter>>

\* the groups take `&self`: the answer is recorded beside the group, and
\* the group as it was before the call is kept for comparison
rgq_return(call, r) ==
    [rgq EXCEPT !.phase = "returned", !.before = rgq.grp, !.call = call,
                !.ret = r.ret, !.out = r.out, !.oob = r.oob]

SubmatrixAsArray ==
    /\ rgq.phase = "open"
    /\ \E i0, i1, j0, j1 \in 0..(rgq.grp.n_bins + 1) :
           \E r \in {get_balanced_submatrix_as_array(rgq.grp, i0, i1, j0, j1)} :
               rgq' = rgq_return(<<"submatrix", i0, i1, j0, j1>>, r)
    /\ rgqUnchanged

RowAsNnzElems ==
    /\ rgq.phase = "open"
    /\ \E row_id \in 0..(rgq.grp.n_bins + 1) :
           \E r \in {get_balanced_row_as_nnz_elems(rgq.grp, row_id)} :
               rgq' = rgq_return(<<"row_nnz", row_id>>, r)
    /\ rgqUnchanged

RowAsArray ==
    /\ rgq.phase = "open"
    /\ \E row_id \in 0..(rgq.grp.n_bins + 1) :
           \E r \in {get_balanced_row_as_array(rgq.grp, row_id)} :
               rgq' = rgq_return(<<"row_array", row_id>>, r)
    /\ rgqUnchanged

ColumnAsArray ==
    /\ rgq.phase = "open"
    /\ \E col_id \in 0..(rgq.grp.n_bins + 1) :
           \E r \in {get_balanced_column_as_array(rgq.grp, col_id)} :
               rgq' = rgq_return(<<"column_array", col_id>>, r)
    /\ rgqUnchanged

NextRgq == SubmatrixAsArray \/ RowAsNnzElems \/ RowAsArray \/ ColumnAsArray

SpecRgq == InitRgq /\ [][NextRgq]_vars


\* a request whose indices lie inside the matrix
InRange(n_bins, call) ==
    IF call[1] = "submatrix"
    THEN /\ call[2] < call[3] /\ call[3] <= n_bins
         /\ call[4] < call[5] /\ call[5] <= n_bins
    ELSE call[2] < n_bins

(* C15: get_balanced_submatrix_as_array returns MatrixIndexError for       *)
(* exactly the windows with i0 >= i1, j0 >= j1, i1 > n_bins or             *)
(* j1 > n_bins, get_balanced_row_as_nnz_elems for exactly the rows with    *)
(* row_id >= n_bins, and a request that is not rejected never reads or     *)
(* writes outside bin_offsets or the array it fills.                       *)
C15_IndexErrorExactlyOutOfRange ==
    rgq.phase = "returned" =>
        /\ rgq.call[1] = "submatrix" =>
               ((rgq.ret = "MatrixIndexError") <=>
                    \/ rgq.call[2] >= rgq.call[3] \/ rgq.call[4] >= rgq.call[5]
                    \/ rgq.call[3] > rgq.before.n_bins \/ rgq.call[5] > rgq.before.n_bins)
        /\ rgq.call[1] = "row_nnz" =>
               ((rgq.ret = "MatrixIndexError") <=> rgq.call[2] >= rgq.before.n_bins)
        /\ rgq.ret # "MatrixIndexError" => ~rgq.oob /\ rgq.ret # "panic"

\* a window across the diagonal that ends at the last bin is answered
C15_Witness ==
    /\ rgq.phase = "returned"
    /\ rgq.call[1] = "submatrix"
    /\ rgq.before.n_bins >= 3
    /\ rgq.call[2] = 1 /\ rgq.call[3] = rgq.before.n_bins
    /\ rgq.call[4] = 0 /\ rgq.call[5] = rgq.before.n_bins
    /\ rgq.ret = "Ok"
    /\ \E c \in DOMAIN rgq.out : rgq.out[c] # 0

C15_RejectedWitness ==
    /\ rgq.phase = "returned"
    /\ rgq.call[1] = "row_nnz"
    /\ rgq.call[2] = rgq.before.n_bins
    /\ rgq.before.selector # None
    /\ rgq.ret = "MatrixIndexError"

(* C16: on a group whose selector was never initialised, every in-range    *)
(* query (submatrix, row as non-zero elements, row as array, column as     *)
(* array) returns SelectorUninitError, every out-of-range one returns      *)
(* MatrixIndexError, and the selector is still uninitialised afterwards.   *)
C16_UninitialisedSelectorReported ==
    (rgq.phase = "returned" /\ rgq.before.selector = None) =>
        /\ InRange(rgq.before.n_bins, rgq.call) => rgq.ret = "SelectorUninitError"
        /\ ~InRange(rgq.before.n_bins, rgq.call) => rgq.ret = "MatrixIndexError"
        /\ rgq.grp.selector = None

C16_Witness ==
    /\ rgq.phase = "returned"
    /\ rgq.before.selector = None
    /\ rgq.call[1] = "column_array"
    /\ rgq.call[2] + 1 = rgq.before.n_bins
    /\ rgq.ret = "SelectorUninitError"
    /\ rgq.grp.selector = None

C16_SubmatrixWitness ==
    /\ rgq.phase = "returned"
    /\ rgq.before.selector = None
    /\ rgq.call[1] = "submatrix"
    /\ InRange(rgq.before.n_bins, rgq.call)
    /\ rgq.ret = "SelectorUninitError"


\* the records of a log in some order
RECURSIVE StreamOf(_)
StreamOf(log) ==
    IF BagToSet(log) = {} THEN <<>>
    ELSE LET r == CHOOSE x \in BagToSet(log) : TRUE
         IN  <<r>> \o StreamOf(log (-) SetToBag({r}))

\* the log without the records that name a contig absent from the catalog
WithoutUnknown(b, log) == [r \in Accepted(b, log) |-> CopiesIn(r, log)]

(* C18: a record naming a contig absent from the catalog, in either        *)
(* anchor, changes no count and does not stop the reading: at every turn   *)
(* and at the return the counts are those get_pixels makes of the same     *)
(* records with the unknown-contig ones removed, and get_pixels returns    *)
(* Ok with that list.                                                      *)
C18_UnknownContigSkipped ==
    /\ pairs.phase \in {"reading", "done"} =>
           sort_by_key(pairs.pixels) = pixels_of(pairs.b, StreamOf(WithoutUnknown(pairs.b, pairs.log)))
    /\ pairs.phase = "done" =>
           pairs.out = pixels_of(pairs.b, StreamOf(WithoutUnknown(pairs.b, pairs.log)))
    /\ pairs.phase = "failed" => pairs.err \in UnparsableErrors

\* Ok after a record unknown in its first anchor, one unknown in its
\* second, and nothing else
C18_Witness ==
    /\ pairs.phase = "done"
    /\ \E r \in BagToSet(pairs.log) : ~known_tig(pairs.b, r.tig1) /\ known_tig(pairs.b, r.tig2)
    /\ \E r \in BagToSet(pairs.log) : known_tig(pairs.b, r.tig1) /\ ~known_tig(pairs.b, r.tig2)
    /\ pairs.out = <<>>

\* Ok with one pixel after a record of the catalog and an unknown one
C18_MixedWitness ==
    /\ pairs.phase = "done"
    /\ \E r \in BagToSet(pairs.log) : ~known_tig(pairs.b, r.tig1) \/ ~known_tig(pairs.b, r.tig2)
    /\ Len(pairs.out) = 1
    /\ pairs.out[1][3] = 1

(* C19: a line of the pairs file that cannot be parsed (wrong number of    *)
(* fields, non-numeric position, non-ASCII contig name) is skipped:        *)
(* get_pixels never ends in an error because of one.                       *)
C19_UnparsableRecordSkipped ==
    ~(/\ pairs.phase = "failed"
      /\ pairs.err \in UnparsableErrors)


(***************************************************************************)
(* RawPixelIterator over a range of the stored pixels (res_group.rs        *)
(* 130-136, 163-194), driven by a consumer that keeps calling next.        *)
(* iter.yielded is the concatenation of the chunks returned so far,        *)
(* iter.last_len the length of the last of them (-1 before the first),     *)
(* and iter.uneven records a chunk returned after a chunk that did not     *)
(* hold chunksize pixels.                                                  *)
(***************************************************************************)
\* the pixels of a stored group of n pixels
StoredPixels(n) == [k \in 1..n |-> <<0, k - 1, k>>]

\* RawPixelIterator::new (res_group.rs 184-194)
raw_pixel_iterator_new(pixels, start, end, chunksize) ==
    [phase |-> IF start < end THEN "iterating" ELSE "panic",
     pixels |-> pixels, start |-> start,
     current |-> start, end |-> end, chunksize |-> chunksize,
     ret |-> "", yielded |-> <<>>, last_len |-> -1, uneven |-> FALSE]

\* what read_slice_1d(s![start..end]) gives for an empty slice is left to
\* the HDF5 library (reader.rs 181-185): an empty array or an error
SliceOutcomes(start, end) == IF start = end THEN {"Ok", "Err"} ELSE {"Ok"}

\* get_raw_pixel_iter_range (res_group.rs 130-132) on a range of the
\* stored pixels, for every chunk size
InitIter ==
    /\ \E n \in 1..MaxPixels, chunksize \in 0..MaxChunk :
         \E start \in 0..(n - 1), end \in 1..n :
           /\ start < end
           /\ iter = raw_pixel_iterator_new(StoredPixels(n), start, end, chunksize)
    /\ store = NoStore /\ query = NoQuery /\ result = NoResult
    /\ offs = NoOffs /\ table = NoTable /\ order = NoOrder
    /\ pairs = NoPairs /\ grp = NoGrp /\ zoom = NoZoom
    /\ mat = NoMat /\ bal = NoBal /\ rgq = NoRgq

iterUnchanged == UNCHANGED <<selVars, offs, table, order, buildVars, mat, bal, rgq>>

\* RawPixelIterator::next with current < end (res_group.rs 173-177)
IterNextChunk ==
    /\ iter.phase = "iterating"
    /\ iter.current < iter.end
    /\ \E nxt \in {iter_advance(iter.current, iter.end, iter.chunksize)} :
         \E outcome \in SliceOutcomes(iter.current, nxt) :
           \E chunk \in {read_pixel_chunk(iter.pixels, iter.current, nxt)} :
             iter' = IF outcome = "Ok"
                     THEN [iter EXCEPT !.current = nxt,
                                       !.ret = "Some",
                                       !.yielded = @ \o chunk,
                                       !.last_len = Len(chunk),
                                       !.uneven = @ \/ iter.last_len \notin {-1, iter.chunksize}]
                     ELSE [iter EXCEPT !.current = nxt, !.ret = "None"]
    /\ iterUnchanged

\* RawPixelIterator::next at the end of the range (res_group.rs 178-180)
IterNextNone ==
    /\ iter.phase = "iterating"
    /\ iter.current >= iter.end
    /\ iter' = [iter EXCEPT !.ret = "None"]
    /\ iterUnchanged

NextIter == IterNextChunk \/ IterNextNone

SpecIter == InitIter /\ [][NextIter]_vars

\* the consumers drain the iterator: `for ... in iter` (zoom_builder.rs
\* 56, balancer.rs 78-82)
SpecIterFair == SpecIter /\ WF_vars(NextIter)

\* the iterator has returned None after chunks that make up [start, end)
Exhausted ==
    /\ iter.ret = "None"
    /\ iter.yielded = SubSeq(iter.pixels, iter.start + 1, iter.end)
    /\ ~iter.uneven

(* C20: for every range start < end of the stored pixels and every chunk   *)
(* size, without a read fault, the iterator returns finitely many chunks   *)
(* and from then on None; the chunks put together are the pixels           *)
(* [start, end), each once, and every chunk but the last holds chunksize   *)
(* pixels.                                                                 *)
C20_IterationEnds == <>[]Exhausted

\* the same for the chunk sizes of at least one pixel
PositiveChunksEnd == (iter.chunksize > 0) => <>[]Exhausted

\* a chunk never exceeds chunksize and what was yielded is a prefix of the range
ChunksArePrefix ==
    iter.phase = "iterating" =>
        /\ iter.yielded = SubSeq(iter.pixels, iter.start + 1, iter.current)
        /\ iter.last_len <= iter.chunksize


(***************************************************************************)
(* The case split of Selector2D::get_rectangle on its own: the branch      *)
(* taken for four indices, whatever they are (selector.rs 43, 59-113).     *)
(***************************************************************************)
rectangle_branch(i0, i1, j0, j1) ==
    IF <<i0, i1>> = <<j0, j1>> THEN "symmetric"
    ELSE IF j0 < i0 \/ (i0 = j0 /\ i1 < j1)
         THEN classify(j0, j1, i0, i1)    \* mem::swap
         ELSE classify(i0, i1, j0, j1)

InitBranch ==
    /\ store = NoStore /\ query = NoQuery /\ result = NoResult
    /\ offs = NoOffs /\ table = NoTable /\ order = NoOrder
    /\ pairs = NoPairs /\ grp = NoGrp /\ zoom = NoZoom
    /\ ApiIdle

\* get_rectangle up to the choice of its branch, for every four indices
\* up to one past the largest matrix, ordered or not
TakeBranch ==
    /\ query.kind = "none"
    /\ \E i0, i1, j0, j1 \in 0..(MaxBins + 1) :
        /\ query' = [kind |-> "branch", i0 |-> i0, i1 |-> i1, j0 |-> j0, j1 |-> j1]
        /\ result' = [is |-> <<>>, js |-> <<>>, vs |-> <<>>,
                      branch |-> rectangle_branch(i0, i1, j0, j1)]
    /\ UNCHANGED <<apiVars, store, offs, table, order, buildVars>>

NextBranch == TakeBranch

SpecBranch == InitBranch /\ [][NextBranch]_vars

(* C21: the `It should not happen` branch of get_rectangle is never        *)
(* taken: whenever (i0, i1) differs from (j0, j1), the window after the    *)
(* swap is non-overlapping, nested or coming-before, the cases with equal  *)
(* boundaries included.                                                    *)
C21_PanicBranchUnreachable ==
    query.kind = "branch" =>
        /\ result.branch # "panic"
        /\ <<query.i0, query.i1>> # <<query.j0, query.j1>> =>
               result.branch \in {"non_overlapping", "nested", "coming_before"}

\* touching windows, i1 = j0, take the coming-before branch
C21_Witness ==
    /\ query.kind = "branch"
    /\ query.i0 < query.i1 /\ query.i1 = query.j0 /\ query.j0 < query.j1
    /\ result.branch = "coming_before"

\* windows with the same start and different ends, swapped, are nested
C21_SameStartWitness ==
    /\ query.kind = "branch"
    /\ query.i0 = query.j0 /\ query.i1 < query.j1
    /\ result.branch = "nested"


(* C22: zoom() goes through the resolutions in increasing numeric order,   *)
(* and whenever a turn of its loop is about to call                        *)
(* Matrix::zoom(prev, target), prev is registered in the matrix: it was    *)
(* in the file or was built by an earlier turn of the same call.           *)
C22_PredecessorRegisteredWhenZoomed ==
    (mat.phase = "zooming" /\ mat.i < Len(mat.order)) =>
        /\ \A k \in 1..(Len(mat.order) - 1) : mat.order[k][1] < mat.order[k + 1][1]
        /\ mat.order[mat.i + 1][2] # -1 =>
               mat.order[mat.order[mat.i + 1][2] + 1][1] \in mat.registered


(* C23: a read fault while the pixel chunks of the source are streamed     *)
(* makes the zoom fail: ZoomBuilder::get_pixels never returns a pixel list *)
(* computed from the chunks read before the fault.                         *)
C23_ReadFaultFailsTheOperation ==
    ~(zoom.phase = "done" /\ zoom.fault)


\* a pixel the storage invariants allow in a group: bin1 <= bin2 < n_bins
StoredPixelOk(g, pixel) == pixel[1] <= pixel[2] /\ pixel[2] < g.n_bins

(* C24: for a source group within the storage invariants and any target    *)
(* resolution, multiple of the source's or not, the mapping of             *)
(* ZoomBuilder::get_pixels is monotone in the source bin id: for every     *)
(* pair of source bins bin1 <= bin2 the assertion                          *)
(* new_bin1_id <= new_bin2_id holds and both ids are below the new bin     *)
(* count; the zoom panics only on a source without pixels or on a pixel    *)
(* outside the source bin table.                                           *)
C24_ZoomMappingMonotone ==
    zoom.phase \in {"streaming", "done", "panic"} =>
        /\ \A bin1, bin2 \in 0..(grp.n_bins - 1) :
               bin1 <= bin2 =>
                   \E key \in {zoom_key(zoom, grp, <<bin1, bin2, 1>>)} :
                       /\ Len(key) = 2
                       /\ key[1] <= key[2]
                       /\ key[2] < zoom.n_new_bins
        /\ zoom.phase = "panic" =>
               \/ grp.n_pixels = 0
               \/ \E k \in 1..Len(grp.pixels) : ~StoredPixelOk(grp, grp.pixels[k])

\* a pixel between two contigs zoomed to a resolution that is no multiple
\* of the source's
C24_Witness ==
    /\ zoom.phase = "done" /\ ~zoom.fault
    /\ zoom.new_res % grp.resolution # 0
    /\ zoom.new_res > grp.resolution
    /\ \A k \in 1..Len(grp.pixels) : StoredPixelOk(grp, grp.pixels[k])
    /\ \E k \in 1..Len(grp.pixels) :
           grp.chrs[grp.pixels[k][1]] # grp.chrs[grp.pixels[k][2]]
    /\ Len(zoom.out) >= 1


(***************************************************************************)
(* Building at one resolution and zooming, beside building at the target   *)
(* resolution directly, from the same stream of records: the whole         *)
(* get_pixels of PairsBuilder (pair_builder.rs 52-84) and of ZoomBuilder   *)
(* (zoom_builder.rs 51-77) as functions of their input.                    *)
(***************************************************************************)
\* the group write_matrix stores for a builder and its pixels, read back
\* (writer.rs 37-41, 106-160, res_group.rs 29-37)
stored_group(b, pixels) ==
    [phase |-> "stored",
     resolution |-> b.rsltn,
     tig_lengths |-> b.tig_lengths,
     n_bins |-> b.n_bins,
     n_pixels |-> Len(pixels),
     chrs |-> b.bin_table.chrs,
     starts |-> b.bin_table.starts,
     tig_offsets |-> b.tig_offsets,
     bin_offsets |-> build_bin_offsets_from_pixels(b.n_bins, pixels),
     pixels |-> pixels]

\* ZoomBuilder::new (zoom_builder.rs 18-31)
zoom_builder_new(tig_lengths, new_res, chunksize) ==
    [new_res |-> new_res,
     n_new_bins |-> builder_new(tig_lengths, new_res).n_bins,
     tig_offsets |-> builder_new(tig_lengths, new_res).tig_offsets,
     chunksize |-> chunksize]

\* the loop of ZoomBuilder::get_pixels from position current on
\* (zoom_builder.rs 56-72, res_group.rs 173-180)
RECURSIVE zoom_stream(_, _, _, _)
zoom_stream(zb, from, current, pixels) ==
    IF current >= from.n_pixels THEN [ret |-> "Ok", out |-> sort_by_key(pixels)]
    ELSE \* one chunk
         the({IF r.panic THEN [ret |-> "panic", out |-> <<>>]
              ELSE zoom_stream(zb, from, iter_advance(current, from.n_pixels, zb.chunksize), r.pixels) :
                 r \in {zoom_add_chunk(zb, from, pixels,
                            read_pixel_chunk(from.pixels, current,
                                iter_advance(current, from.n_pixels, zb.chunksize)))}})

\* ZoomBuilder::get_pixels without a read fault; get_raw_pixel_iter
\* asserts 0 < n_pixels (res_group.rs 134-136, 186)
zoom_get_pixels(zb, from) ==
    IF ~(0 < from.n_pixels) THEN [ret |-> "panic", out |-> <<>>]
    ELSE zoom_stream(zb, from, 0, EmptyMap)

\* the records whose positions are below the length of their contig, and
\* the records of a contig the catalog does not hold
InRangeRecords(b) ==
    {r \in Records(b) :
        /\ known_tig(b, r.tig1) => r.pos1 < b.tig_lengths[r.tig1]
        /\ known_tig(b, r.tig2) => r.pos2 < b.tig_lengths[r.tig2]}

\* the target resolutions: the multiples of the source resolution
Multiples(rsltn) == {rsltn * k : k \in 1..MaxRes}

InitCommute ==
    /\ \E cfg \in BuildConfigs, chunksize \in 1..MaxChunk :
         \E target \in Multiples(cfg[2]) :
           \E stream \in UNION {[1..n -> InRangeRecords(builder_new(ZeroBased(cfg[1]), cfg[2]))] :
                                   n \in 0..MaxObs} :
               pairs = [phase |-> "input",
                        b |-> builder_new(ZeroBased(cfg[1]), cfg[2]),
                        stream |-> stream, target |-> target, chunksize |-> chunksize,
                        out |-> <<>>, direct |-> <<>>]
    /\ grp = NoGrp
    /\ zoom = NoZoom
    /\ store = NoStore /\ query = NoQuery /\ result = NoResult
    /\ offs = NoOffs /\ table = NoTable /\ order = NoOrder
    /\ ApiIdle

\* build_from_pairs at the source resolution: get_pixels and the write
BuildSource ==
    /\ pairs.phase = "input"
    /\ \E out \in {pixels_of(pairs.b, pairs.stream)} :
         /\ pairs' = [pairs EXCEPT !.phase = "source_built", !.out = out]
         /\ grp' = stored_group(pairs.b, out)
    /\ UNCHANGED <<apiVars, selVars, offs, table, order, zoom>>

\* Matrix::zoom to the target: the get_pixels of the ZoomBuilder
ZoomToTarget ==
    /\ pairs.phase = "source_built"
    /\ \E r \in {zoom_get_pixels(zoom_builder_new(grp.tig_lengths, pairs.target, pairs.chunksize), grp)} :
         /\ zoom' = [phase |-> "zoomed", ret |-> r.ret, out |-> r.out,
                     table |-> builder_new(grp.tig_lengths, pairs.target)]
    /\ pairs' = [pairs EXCEPT !.phase = "zoomed"]
    /\ UNCHANGED <<apiVars, selVars, offs, table, order, grp>>

\* build_from_pairs of the same file at the target resolution
BuildDirect ==
    /\ pairs.phase = "zoomed"
    /\ pairs' = [pairs EXCEPT !.phase = "compared",
                              !.direct = pixels_of(builder_new(pairs.b.tig_lengths, pairs.target),
                                                   pairs.stream)]
    /\ UNCHANGED <<apiVars, selVars, offs, table, order, grp, zoom>>

NextCommute == BuildSource \/ ZoomToTarget \/ BuildDirect

SpecCommute == InitCommute /\ [][NextCommute]_vars

(* C25: zooming commutes with binning: for every catalog, every stream of  *)
(* records with positions below the length of their contig and every       *)
(* target resolution that is a multiple of the source resolution, the      *)
(* pixel list of the zoom equals, triple by triple and in order, the       *)
(* pixel list PairsBuilder makes at the target resolution, and both have   *)
(* the same bin table and contig offsets.                                  *)
C25_ZoomCommutesWithBinning ==
    pairs.phase = "compared" =>
        /\ zoom.ret = "Ok"
        /\ zoom.out = pairs.direct
        /\ zoom.table = builder_new(pairs.b.tig_lengths, pairs.target)

\* the same for the streams that leave at least one pixel at the source
NonEmptySourceCommutes ==
    (pairs.phase = "compared" /\ grp.n_pixels > 0) =>
        /\ zoom.ret = "Ok"
        /\ zoom.out = pairs.direct

\* two pixels of the source merged into one by a zoom in chunks of one
CommuteMergeReached ==
    /\ pairs.phase = "compared"
    /\ pairs.chunksize = 1
    /\ Len(grp.pixels) = 2
    /\ Len(zoom.out) = 1
    /\ zoom.out = pairs.direct


(***************************************************************************)
(* The life of the selectors of an open Matrix (matrix.rs 57-84,           *)
(* res_group.rs 39-44): a matrix of two resolutions is opened, and         *)
(* init_selector, init_selectors, balance and the balanced queries are     *)
(* called on it in any order.  `reader` of a group is what its handle      *)
(* reads from the file now; `first` keeps, for each resolution, what the   *)
(* file held when its selector was first built.                            *)
(***************************************************************************)
LifeBins == 2       \* a resolution of such a matrix has at most this many bins

LifeResolutions == {1, 2}

\* a full upper triangle with a different count in every cell, with one of
\* two weight vectors or without the weight dataset
LifeStores ==
    UNION {{written_store(n, [c \in UpperCells(n) |-> 1 + c[1] * n + c[2]], w) :
                w \in BiasVecs(n) \cup {NoWeights}} : n \in 1..LifeBins}

InitLife ==
    /\ \E files \in [LifeResolutions -> LifeStores] :
           rgq = [phase |-> "open",
                  grps |-> [res \in LifeResolutions |-> res_group_new(files[res])],
                  first |-> [res \in LifeResolutions |-> None],
                  call |-> <<>>, ret |-> "", out |-> <<>>]
    /\ store = NoStore /\ query = NoQuery /\ result = NoResult
    /\ offs = NoOffs /\ table = NoTable /\ order = NoOrder
    /\ pairs = NoPairs /\ grp = NoGrp /\ zoom = NoZoom
    /\ mat = NoMat /\ bal = NoBal /\ iter = NoIter

\* ResGroup::init_selector on the group of one resolution
LifeInitSelector ==
    /\ rgq.phase = "open"
    /\ \E res \in LifeResolutions :
           rgq' = [rgq EXCEPT !.grps[res] = init_selector(rgq.grps[res]),
                              !.first[res] = IF @ = None THEN selector_new(rgq.grps[res].reader)
                                             ELSE @,
                              !.call = <<"init_selector", res>>,
                              !.ret = init_selector_ret(rgq.grps[res]),
                              !.out = <<>>]
    /\ rgqUnchanged

\* Matrix::init_selectors (matrix.rs 57-62): the matrix is moved into the
\* call, and the first group whose init_selector fails ends it with the
\* error, so that no matrix comes back
init_selectors(grps) ==
    IF \E res \in DOMAIN grps : init_selector_ret(grps[res]) # "Ok"
    THEN [ret |-> "StorageError", grps |-> grps, phase |-> "dropped"]
    ELSE [ret |-> "Ok", grps |-> [res \in DOMAIN grps |-> init_selector(grps[res])],
          phase |-> "open"]

LifeInitSelectors ==
    /\ rgq.phase = "open"
    /\ \E r \in {init_selectors(rgq.grps)} :
           rgq' = [rgq EXCEPT !.phase = r.phase,
                              !.grps = r.grps,
                              !.first = [res \in LifeResolutions |->
                                            IF rgq.first[res] = None /\ r.ret = "Ok"
                                            THEN selector_new(rgq.grps[res].reader)
                                            ELSE rgq.first[res]],
                              !.call = <<"init_selectors">>,
                              !.ret = r.ret,
                              !.out = <<>>]
    /\ rgqUnchanged

\* the weights Matrix::balance computes for a group (matrix.rs 69-73):
\* Some vector, or none with Strategy::None or an aborted correction
LifeWeights(g) == BiasVecs(g.n_bins) \cup {None}

\* Matrix::balance (matrix.rs 64-84) on a registered resolution: the
\* weights go to the file (writer.rs 49-60, 93-104), the groups are borrowed
\* unchanged
life_balance(g, weights) ==
    IF weights = None THEN g ELSE [g EXCEPT !.reader.biases = weights]

LifeBalance ==
    /\ rgq.phase = "open"
    /\ \E res \in LifeResolutions :
         \E weights \in LifeWeights(rgq.grps[res]) :
           rgq' = [rgq EXCEPT !.grps[res] = life_balance(@, weights),
                              !.call = <<"balance", res>>,
                              !.ret = "Ok",
                              !.out = <<>>]
    /\ rgqUnchanged

\* the answer of a balanced query of a group
life_answer(g, call) ==
    CASE call[1] = "submatrix" ->
             get_balanced_submatrix_as_array(g, call[3], call[4], call[5], call[6])
      [] call[1] = "row_array" -> get_balanced_row_as_array(g, call[3])
      [] OTHER -> get_balanced_column_as_array(g, call[3])

LifeQueryKinds == {"submatrix", "row_array", "column_array"}

\* the requests whose indices lie inside the matrix
LifeCalls(res, n_bins) ==
    {<<"submatrix", res, wi[1], wi[2], wj[1], wj[2]>> : wi \in Windows(n_bins), wj \in Windows(n_bins)}
        \cup {<<kind, res, id>> : kind \in {"row_array", "column_array"}, id \in 0..(n_bins - 1)}

LifeQuery ==
    /\ rgq.phase = "open"
    /\ \E res \in LifeResolutions :
         \E call \in LifeCalls(res, rgq.grps[res].n_bins) :
           \E r \in {life_answer(rgq.grps[res], call)} :
               rgq' = [rgq EXCEPT !.call = call, !.ret = r.ret, !.out = r.out]
    /\ rgqUnchanged

NextLife == LifeInitSelector \/ LifeInitSelectors \/ LifeBalance \/ LifeQuery

SpecLife == InitLife /\ [][NextLife]_vars

\* the resolutions whose group has no weight dataset in the file
Unweighted == {res \in LifeResolutions : rgq.grps[res].reader.biases = NoWeights}

(* C26: a resolution whose group has no stored weight array cannot be      *)
(* made query-ready: init_selector on it returns a storage error and       *)
(* leaves its selector None, its balanced queries return                   *)
(* SelectorUninitError, and Matrix::init_selectors fails as a whole, with  *)
(* no matrix returned, when one registered resolution is in that state.    *)
C26_NoSelectorWithoutWeights ==
    /\ \A res \in Unweighted : rgq.grps[res].selector = None
    /\ (rgq.call # <<>> /\ rgq.call[1] = "init_selector" /\ rgq.call[2] \in Unweighted) =>
           rgq.ret = "StorageError"
    /\ (rgq.call # <<>> /\ rgq.call[1] \in LifeQueryKinds /\ rgq.call[2] \in Unweighted) =>
           rgq.ret = "SelectorUninitError"
    /\ (rgq.call = <<"init_selectors">> /\ Unweighted # {}) =>
           (rgq.ret = "StorageError" /\ rgq.phase = "dropped")

\* init_selector has failed on a group without weights
C26_Witness ==
    /\ rgq.call # <<>> /\ rgq.call[1] = "init_selector"
    /\ rgq.call[2] \in Unweighted
    /\ rgq.ret = "StorageError"

\* init_selectors has failed on a matrix with one balanced resolution and
\* one that is not
C26_MatrixWitness ==
    /\ rgq.call = <<"init_selectors">>
    /\ Cardinality(Unweighted) = 1
    /\ rgq.phase = "dropped"

\* a query on a group without weights
C26_QueryWitness ==
    /\ rgq.call # <<>> /\ rgq.call[1] \in LifeQueryKinds
    /\ rgq.call[2] \in Unweighted
    /\ rgq.ret = "SelectorUninitError"

(* C27: the weights of a selector are a snapshot: once init_selector has   *)
(* succeeded for a group, its selector stays what the file held at that    *)
(* first initialisation, and every balanced submatrix, row and column      *)
(* query answers from it, whatever init_selector and balance calls come    *)
(* between.                                                                *)
C27_SelectorIsASnapshot ==
    /\ \A res \in LifeResolutions :
           rgq.first[res] # None => rgq.grps[res].selector = rgq.first[res]
    /\ (rgq.call # <<>> /\ rgq.call[1] \in LifeQueryKinds /\ rgq.first[rgq.call[2]] # None) =>
           /\ rgq.ret = "Ok"
           /\ rgq.out = life_answer([rgq.grps[rgq.call[2]] EXCEPT
                                         !.selector = rgq.first[rgq.call[2]]], rgq.call).out

\* the resolutions whose file was balanced again since their selector was
\* built
Rebalanced ==
    {res \in LifeResolutions :
        rgq.first[res] # None /\ rgq.first[res][1].biases # rgq.grps[res].reader.biases}

\* a query answered from the first weights after the file was given others
C27_Witness ==
    /\ rgq.call # <<>> /\ rgq.call[1] \in LifeQueryKinds
    /\ rgq.call[2] \in Rebalanced
    /\ rgq.ret = "Ok"
    /\ rgq.out # life_answer([rgq.grps[rgq.call[2]] EXCEPT
                                  !.selector = <<rgq.grps[rgq.call[2]].reader>>], rgq.call).out

\* init_selector called again after the file was given other weights
C27_RepeatedInitWitness ==
    /\ rgq.call # <<>> /\ rgq.call[1] = "init_selector"
    /\ rgq.call[2] \in Rebalanced
    /\ rgq.ret = "Ok"


\* the target lists of the claim: empty, holding an existing resolution,
\* holding a resolution twice, or holding one below every existing one
NoOrderingCase(existing, targets) ==
    \/ Len(targets) = 0
    \/ \E k \in 1..Len(targets) : targets[k] \in existing
    \/ \E k, l \in 1..Len(targets) : k # l /\ targets[k] = targets[l]
    \/ \E k \in 1..Len(targets) : \A e \in existing : targets[k] < e

\* the targets of a zoom that was entered, by `zoom` itself or by
\* build_from_pairs_multi_res
ZoomTargets ==
    IF mat.call[1] = "zoom_all" THEN mat.call[2] ELSE Tail(mat.call[2])

ZoomEntered ==
    /\ mat.call # <<>>
    /\ \/ mat.call[1] = "zoom_all"
       \/ mat.call[1] = "multi_res" /\ mat.call[4]

(* C28: when get_zooming_order yields no ordering (an empty target list, a *)
(* target equal to an existing resolution or repeated, a target below      *)
(* every existing resolution), zoom ends in the failed assertion, not in   *)
(* an Err, before any resolution group is written; and                     *)
(* build_from_pairs_multi_res given exactly one resolution ends there,     *)
(* with that resolution written and balanced.                              *)
C28_NoOrderingPanicsBeforeWriting ==
    /\ (ZoomEntered /\ (mat.order = <<>>
                           \/ NoOrderingCase(mat.before.registered, ZoomTargets))) =>
           /\ mat.phase = "returned"
           /\ mat.ret = "panic"
           /\ mat.stored = mat.before.stored
           /\ mat.partial = mat.before.partial
    /\ (ZoomEntered /\ mat.call[1] = "multi_res" /\ Len(mat.call[2]) = 1) =>
           /\ mat.ret = "panic"
           /\ mat.stored = {mat.call[2][1]}
           /\ mat.partial = {}

\* zoom given a target below every existing resolution
C28_Witness ==
    /\ ZoomEntered /\ mat.call[1] = "zoom_all"
    /\ Len(mat.call[2]) = 2
    /\ mat.call[2][1] # mat.call[2][2]
    /\ \A k \in 1..2 : mat.call[2][k] \notin mat.before.registered
    /\ \E k \in 1..2 : \A e \in mat.before.registered : mat.call[2][k] < e
    /\ mat.ret = "panic"

\* build_from_pairs_multi_res given one resolution, written and balanced
C28_SingleResolutionWitness ==
    /\ ZoomEntered /\ mat.call[1] = "multi_res"
    /\ Len(mat.call[2]) = 1
    /\ mat.weights = {mat.call[2][1]}
    /\ mat.ret = "panic"


(***************************************************************************)
(* The write of a resolution group, step by step (writer.rs 43-47,         *)
(* 106-160), and the calls that meet what a failed write leaves: the file  *)
(* of a matrix, the Matrix in memory, Matrix::zoom with a fault of the     *)
(* store at one step of the write, and Matrix::from_hdf_file.              *)
(* A group of the file is at one of these levels:                          *)
(*   "absent"    no group resolutions/<R>                                  *)
(*   "indexes"   the group and its `indexes` sub-group (writer.rs 44, 129) *)
(*   "pixels"    ... and the `pixels` sub-group, before `bins` exists      *)
(*   "bins"      ... and the dataset bins/chrom, `start` or `end` missing  *)
(*   "complete"  every dataset                                             *)
(***************************************************************************)
WriteRes == 3       \* the resolutions of such a file are 1..WriteRes

Levels == {"absent", "indexes", "pixels", "bins", "complete"}

\* where a write can end: at create_group of the group itself, in
\* get_pixels (the panic of a source without pixels, res_group.rs 186; its
\* read faults are not reported), at a dataset of `indexes` (writer.rs 132,
\* 134), at `pixels` (writer.rs 141-155), at create_group("bins") or the
\* creation of bins/chrom (writer.rs 120, 122), after bins/chrom was
\* created (writer.rs 122-124), or nowhere
WriteFaults == {"group", "get_pixels", "indexes", "pixels", "bins_group", "bins", "none"}

\* the level a write leaves the group at
level_after(fault) ==
    CASE fault = "group" -> "absent"
      [] fault \in {"get_pixels", "indexes"} -> "indexes"
      [] fault \in {"pixels", "bins_group"} -> "pixels"
      [] fault = "bins" -> "bins"
      [] OTHER -> "complete"

\* ResGroup::new on a group of the file (res_group.rs 29-37): get_n_bins
\* reads the size of bins/chrom and get_n_pixels that of pixels/bin1_id
\* (reader.rs 73-81)
res_group_opens_always(level) == TRUE

res_group_opens(level) == level \in {"bins", "complete"}

\* Matrix::from_hdf_file (matrix.rs 38-55): every group read_resolutions
\* enumerates is registered, and the first that fails ends the call
from_hdf_file(file) ==
    IF \A res \in DOMAIN file : file[res] # "absent" => res_group_opens(file[res])
    THEN [ret |-> "Ok", registered |-> {res \in DOMAIN file : file[res] # "absent"}]
    ELSE [ret |-> "StorageError", registered |-> {}]

\* Matrix::zoom (matrix.rs 86-100) with the write of the group: the file
\* and the registered resolutions after the call, and what it returns
zoom_write(file, registered, from_rstln, to_rstln, fault) ==
    IF from_rstln \notin registered
    THEN [file |-> file, registered |-> registered, ret |-> "MatrixResolutionError"]
    ELSE IF file[to_rstln] # "absent" \/ fault = "group"
    THEN [file |-> file, registered |-> registered, ret |-> "StorageError"]
    ELSE IF fault = "none"
    THEN [file |-> [file EXCEPT ![to_rstln] = "complete"],
          registered |-> registered \cup {to_rstln}, ret |-> "Ok"]
    ELSE [file |-> [file EXCEPT ![to_rstln] = level_after(fault)],
          registered |-> registered,
          ret |-> IF fault = "get_pixels" THEN "panic" ELSE "StorageError"]

\* a file with complete groups, opened
InitWrite ==
    /\ \E stored \in (SUBSET (1..WriteRes)) \ {{}} :
           mat = [phase |-> "open",
                  file |-> [res \in 1..WriteRes |-> IF res \in stored THEN "complete" ELSE "absent"],
                  registered |-> stored,
                  failed |-> {}, before |-> {}, retry |-> FALSE,
                  call |-> <<>>, ret |-> ""]
    /\ store = NoStore /\ query = NoQuery /\ result = NoResult
    /\ offs = NoOffs /\ table = NoTable /\ order = NoOrder
    /\ pairs = NoPairs /\ grp = NoGrp /\ zoom = NoZoom
    /\ bal = NoBal /\ rgq = NoRgq /\ iter = NoIter

\* Matrix::zoom on the matrix in memory; a panic ends the process and the
\* matrix with it; `failed` keeps the targets whose write ended after the
\* group was created, with the step it ended at, `before` the resolutions
\* registered when the call was made, and `retry` says the target of the
\* call was one of `failed`
WriteZoom ==
    /\ mat.phase = "open"
    /\ \E from_rstln, to_rstln \in 1..WriteRes, fault \in WriteFaults :
         \E r \in {zoom_write(mat.file, mat.registered, from_rstln, to_rstln, fault)} :
           mat' = [mat EXCEPT !.phase = IF r.ret = "panic" THEN "closed" ELSE "open",
                              !.file = r.file,
                              !.registered = IF r.ret = "panic" THEN {} ELSE r.registered,
                              !.failed = IF r.file # mat.file /\ r.ret # "Ok"
                                         THEN @ \cup {<<to_rstln, fault>>} ELSE @,
                              !.before = mat.registered,
                              !.retry = to_rstln \in {f[1] : f \in mat.failed},
                              !.call = <<"zoom", from_rstln, to_rstln>>,
                              !.ret = r.ret]
    /\ matUnchanged

\* Matrix::from_hdf_file on the file, by the same process or a later one
WriteReopen ==
    /\ mat.phase \in {"open", "closed"}
    /\ \E r \in {from_hdf_file(mat.file)} :
           mat' = [mat EXCEPT !.phase = IF r.ret = "Ok" THEN "open" ELSE "closed",
                              !.registered = r.registered,
                              !.before = mat.registered,
                              !.retry = FALSE,
                              !.call = <<"from_hdf_file">>,
                              !.ret = r.ret]
    /\ matUnchanged

NextWrite == WriteZoom \/ WriteReopen

SpecWrite == InitWrite /\ [][NextWrite]_vars

\* the targets whose write failed, and those where it failed before
\* bins/chrom was created
FailedTargets == {f[1] : f \in mat.failed}

FailedBeforeBins == {f[1] : f \in {g \in mat.failed : g[2] # "bins"}}

\* a zoom that did not return Ok has registered nothing
FailedZoomRegistersNothing ==
    (mat.call # <<>> /\ mat.call[1] = "zoom" /\ mat.ret # "Ok") =>
        mat.registered \subseteq mat.before

\* a zoom to a target whose write has failed fails, and with the error of
\* create_group when its source is registered
RetryFails ==
    (mat.call # <<>> /\ mat.call[1] = "zoom" /\ mat.retry) =>
        /\ mat.ret \in {"StorageError", "MatrixResolutionError"}
        /\ mat.call[2] \in mat.before => mat.ret = "StorageError"

(* C29: writing a resolution group is not atomic: after a zoom to R whose  *)
(* get_pixels or any later dataset write failed, the file keeps a group R  *)
(* that is not complete, the zoom has not registered R, every later        *)
(* Matrix::from_hdf_file fails, and a zoom to R fails again.               *)
C29_FailedWriteBlocksTheFile ==
    /\ \A res \in FailedTargets : mat.file[res] \notin {"absent", "complete"}
    /\ FailedZoomRegistersNothing
    /\ (mat.call = <<"from_hdf_file">> /\ FailedTargets # {}) => mat.ret = "StorageError"
    /\ RetryFails

(* C29 as the code has it: the same, but Matrix::from_hdf_file fails only  *)
(* while a group is left from a write that ended before bins/chrom was     *)
(* created; a group left from a write that ended later is registered,      *)
(* with its incomplete bin table, when the file is opened again.           *)
C29_FailedWriteBeforeBinsBlocksTheFile ==
    /\ \A res \in FailedTargets : mat.file[res] \notin {"absent", "complete"}
    /\ FailedZoomRegistersNothing
    /\ mat.call = <<"from_hdf_file">> =>
           /\ FailedBeforeBins # {} => (mat.ret = "StorageError" /\ mat.phase = "closed")
           /\ FailedBeforeBins = {} => (mat.ret = "Ok" /\ FailedTargets \subseteq mat.registered)
    /\ RetryFails

\* from_hdf_file has failed on a file with a group left by a failed write
C29_Witness ==
    /\ mat.call = <<"from_hdf_file">>
    /\ FailedBeforeBins # {}
    /\ mat.ret = "StorageError"

\* a zoom tried again by the matrix in memory, after a failed write
C29_RetryWitness ==
    /\ mat.call # <<>> /\ mat.call[1] = "zoom"
    /\ mat.retry
    /\ mat.call[2] \in mat.before
    /\ mat.file[mat.call[3]] = "pixels"
    /\ mat.ret = "StorageError"

\* a group left without `start` and `end`, registered on reopening
C29_LateFaultWitness ==
    /\ mat.call = <<"from_hdf_file">>
    /\ mat.ret = "Ok"
    /\ FailedTargets \cap mat.registered # {}


(***************************************************************************)
(* do_iterative_corrections with numbers (balancer.rs 123-165).  An f64 is *)
(* modelled as a binary floating-point number of Prec mantissa bits,       *)
(* <<m, e>> for m * 2^e with 2^(Prec-1) <= m < 2^Prec, <<0, 0>> for 0.0    *)
(* and FNaN for NaN; results are rounded towards zero.  The numbers of the *)
(* balancer are not negative, and the one difference it takes is squared.  *)
(***************************************************************************)
Prec == 14

FZero == <<0, 0>>

FNaN == <<-1, 0>>

RECURSIVE normalize(_, _)
normalize(m, e) ==
    IF m = 0 THEN FZero
    ELSE IF m >= 2^Prec THEN normalize(m \div 2, e + 1)
    ELSE IF m < 2^(Prec - 1) THEN normalize(m * 2, e - 1)
    ELSE <<m, e>>

from_u32(n) == normalize(n, 0)

fmul(a, b) == normalize(a[1] * b[1], a[2] + b[2])

fdiv(a, b) == normalize((a[1] * 2^Prec) \div b[1], a[2] - b[2] - Prec)

\* a < b
flt(a, b) ==
    IF b[1] = 0 THEN FALSE
    ELSE IF a[1] = 0 THEN TRUE
    ELSE a[2] < b[2] \/ (a[2] = b[2] /\ a[1] < b[1])

fadd(a, b) ==
    IF a[1] = 0 THEN b
    ELSE IF b[1] = 0 THEN a
    ELSE IF a[2] - b[2] > Prec THEN a
    ELSE IF b[2] - a[2] > Prec THEN b
    ELSE IF a[2] >= b[2] THEN normalize(a[1] * 2^(a[2] - b[2]) + b[1], b[2])
    ELSE normalize(b[1] * 2^(b[2] - a[2]) + a[1], a[2])

\* a - b for a >= b
fsub(a, b) ==
    IF b[1] = 0 \/ a[2] - b[2] > Prec THEN a
    ELSE normalize(a[1] * 2^(a[2] - b[2]) - b[1], b[2])

\* |a - b|
fabs_sub(a, b) == IF flt(a, b) THEN fsub(b, a) ELSE fsub(a, b)

\* the largest r with r * r <= x, looked for between lo and hi
RECURSIVE isqrt(_, _, _)
isqrt(x, lo, hi) ==
    IF lo >= hi THEN lo
    ELSE IF ((lo + hi + 1) \div 2) * ((lo + hi + 1) \div 2) <= x
         THEN isqrt(x, (lo + hi + 1) \div 2, hi)
         ELSE isqrt(x, lo, (lo + hi + 1) \div 2 - 1)

fsqrt(a) ==
    IF a[1] = 0 THEN FZero
    ELSE IF a[2] % 2 = 0 THEN normalize(isqrt(a[1] * 2^Prec, 0, 2^Prec), (a[2] - Prec) \div 2)
    ELSE normalize(isqrt(a[1] * 2^(Prec + 1), 0, 2^(Prec + 1)), (a[2] - Prec - 1) \div 2)

RECURSIVE fsum(_)
fsum(xs) == IF Len(xs) = 0 THEN FZero ELSE fadd(fsum(SubSeq(xs, 1, Len(xs) - 1)), xs[Len(xs)])

\* var_bound (balancer.rs 52): 1e-5, which is 1.31072 * 2^-17
var_bound == <<(131072 * 2^(Prec - 1)) \div 100000, -17 - (Prec - 1)>>

\* pipe_product (balancer.rs 178-183): the count of pixel k, 0 near the
\* diagonal, times the weights of its two bins
pipe_product(g, bias, k) ==
    IF g.pixels[k][2] - g.pixels[k][1] < ignore_diags THEN FZero
    ELSE fmul(from_u32(g.pixels[k][3]), fmul(bias[g.pixels[k][1]], bias[g.pixels[k][2]]))

\* marginalize (balancer.rs 197-202): the sum of the products of the
\* pixels whose bin1 is b plus that of the pixels whose bin2 is b
product_marginal(g, bias, b) ==
    fadd(fsum(SelectSeq([k \in 1..Len(g.pixels) |->
                            IF g.pixels[k][1] = b THEN pipe_product(g, bias, k) ELSE FZero],
                        LAMBDA x : x # FZero)),
         fsum(SelectSeq([k \in 1..Len(g.pixels) |->
                            IF g.pixels[k][2] = b THEN pipe_product(g, bias, k) ELSE FZero],
                        LAMBDA x : x # FZero)))

\* ndarray's mean and central_moment(2) of the elements that are not 0
mean_and_var(nnz_elems) ==
    the({[mean |-> mean,
          var |-> fdiv(fsum([k \in 1..Len(nnz_elems) |->
                                fmul(fabs_sub(nnz_elems[k], mean), fabs_sub(nnz_elems[k], mean))]),
                       from_u32(Len(nnz_elems)))] :
            mean \in {fdiv(fsum(nnz_elems), from_u32(Len(nnz_elems)))}})

\* calc_mean_and_var_of_matrix (balancer.rs 154-165): None, or the mean and
\* the variance of the marginals that are not 0, with all the marginals
mean_and_var_of_matrix(g, bias) ==
    the({IF \A b \in DOMAIN res : res[b] = FZero THEN None
         ELSE the({<<[mean |-> mv.mean, var |-> mv.var, data |-> res]>> :
                      mv \in {mean_and_var(SelectSeq([k \in 1..g.n_bins |-> res[k - 1]],
                                                     LAMBDA x : x # FZero))}}) :
            res \in {[b \in 0..(g.n_bins - 1) |-> product_marginal(g, bias, b)]}})

\* one correction (balancer.rs 128-129)
corrected_bias(bias, mv) ==
    [b \in DOMAIN bias |->
        fdiv(bias[b], IF mv.data[b] = FZero THEN from_u32(1) ELSE fdiv(mv.data[b], mv.mean))]

\* the scaling after the loop (balancer.rs 143)
scaled_bias(bias, mean) ==
    the({[b \in DOMAIN bias |-> IF bias[b] = FZero THEN FNaN ELSE fdiv(bias[b], root)] :
            root \in {fsqrt(mean)}})

(***************************************************************************)
(* The matrices the corrections are run on: ConvBins bins of one contig,   *)
(* where the bins i with i % 3 = 0 are in contact with each other, each    *)
(* pair once, and so are the bins with i % 3 = 1; two bins in contact are  *)
(* ignore_diags or more apart and each has min_nnz partners, so that       *)
(* neither filter of balance_by_ic_genomewide excludes one, and the bins   *)
(* with i % 3 = 2 have no contact and enter with weight 0.  The true       *)
(* marginals are uniform, and the counts are multiplied by the biases of   *)
(* the two bins.                                                           *)
(***************************************************************************)
ConvBins == 17

ConvCells ==
    {c \in (0..(ConvBins - 1)) \X (0..(ConvBins - 1)) :
        c[1] < c[2] /\ c[1] % 3 = c[2] % 3 /\ c[1] % 3 # 2}

\* the bias vectors: none, one by half of the contig, one by group of bins
ConvBiases ==
    {[b \in 0..(ConvBins - 1) |-> 1],
     [b \in 0..(ConvBins - 1) |-> IF b < 9 THEN 1 ELSE 2],
     [b \in 0..(ConvBins - 1) |-> 1 + (b % 3)]}

conv_group(bv) ==
    [n_bins |-> ConvBins,
     pixels |-> sort_by_key([c \in ConvCells |-> bv[c[1]] * bv[c[2]]])]

InitConv ==
    /\ \E bv \in ConvBiases :
           bal = [phase |-> "iterating", g |-> conv_group(bv), true_bias |-> bv,
                  bias |-> [b \in 0..(ConvBins - 1) |-> IF b % 3 = 2 THEN FZero ELSE from_u32(1)],
                  iteration |-> 0, var |-> FZero, below |-> FALSE, ret |-> ""]
    /\ store = NoStore /\ query = NoQuery /\ result = NoResult
    /\ offs = NoOffs /\ table = NoTable /\ order = NoOrder
    /\ pairs = NoPairs /\ grp = NoGrp /\ zoom = NoZoom
    /\ mat = NoMat /\ rgq = NoRgq /\ iter = NoIter

\* one turn of the loop of do_iterative_corrections (balancer.rs 124-138)
ConvCorrection ==
    /\ bal.phase = "iterating"
    /\ bal.iteration < n_iters
    /\ \E r \in {mean_and_var_of_matrix(bal.g, bal.bias)} :
           IF r = None
           THEN bal' = [bal EXCEPT !.phase = "returned", !.ret = "None"]
           ELSE bal' = [bal EXCEPT
                           !.bias = corrected_bias(bal.bias, r[1]),
                           !.iteration = @ + 1,
                           !.var = r[1].var,
                           !.below = flt(r[1].var, var_bound),
                           !.phase = IF flt(r[1].var, var_bound) \/ bal.iteration + 1 = n_iters
                                     THEN "rescale" ELSE "iterating"]
    /\ balUnchanged

\* do_iterative_corrections after its loop (balancer.rs 140-150)
ConvRescale ==
    /\ bal.phase = "rescale"
    /\ \E r \in {mean_and_var_of_matrix(bal.g, bal.bias)} :
           IF r = None
           THEN bal' = [bal EXCEPT !.phase = "returned", !.ret = "None"]
           ELSE bal' = [bal EXCEPT !.phase = "returned", !.ret = "Some",
                                   !.bias = scaled_bias(bal.bias, r[1].mean)]
    /\ balUnchanged

NextConv == ConvCorrection \/ ConvRescale

SpecConv == InitConv /\ [][NextConv]_vars

\* the variance of the marginals of count * w * w for the weights that
\* were returned, the bins of weight NaN left out
ReturnedVariance ==
    mean_and_var_of_matrix(bal.g, [b \in DOMAIN bal.bias |->
                                      IF bal.bias[b] = FNaN THEN FZero ELSE bal.bias[b]])[1].var

(* C30: on a matrix with uniform true marginals multiplied by a nonzero    *)
(* bias per bin, do_iterative_corrections returns, within n_iters turns,   *)
(* weights for which the variance of the marginals of                      *)
(* count[i,j] * w[i] * w[j] is below var_bound, its loop having stopped at *)
(* the first turn whose variance was below var_bound, and the excluded     *)
(* bins are NaN.                                                           *)
C30_BalancingConverges ==
    bal.phase = "returned" =>
        /\ bal.ret = "Some"
        /\ bal.iteration <= n_iters
        /\ bal.below
        /\ flt(ReturnedVariance, var_bound)
        /\ \A b \in DOMAIN bal.bias : (b % 3 = 2) <=> (bal.bias[b] = FNaN)

\* the loop goes on exactly while the variance is not below var_bound, and
\* the excluded bins, and only they, are NaN in what is returned
LoopStopsAtFirstVarianceBelowBound ==
    /\ (bal.phase = "iterating" /\ bal.iteration > 0) => ~bal.below
    /\ (bal.phase = "rescale" /\ bal.iteration < n_iters) => bal.below
    /\ bal.phase = "returned" =>
           \A b \in DOMAIN bal.bias : (b % 3 = 2) <=> (bal.bias[b] = FNaN)

\* the corrections of a biased matrix have converged after several turns
ConvergedReached ==
    /\ bal.phase = "returned"
    /\ bal.ret = "Some"
    /\ bal.below
    /\ bal.iteration > 1
    /\ flt(ReturnedVariance, var_bound)

\* all n_iters turns were made and the variance was never below var_bound
NotConvergedReached ==
    /\ bal.phase = "returned"
    /\ bal.ret = "Some"
    /\ bal.iteration = n_iters
    /\ ~bal.below

====
